---------------------------- MODULE Spec2Model ----------------------------
(***************************************************************************)
(* A model of satring's L402 payment gate (app/l402.py), of the payment    *)
(* gates of the HTML flows (app/routes/web.py), of the origin check        *)
(* (app/main.py) and of the listing, edit-token and domain-recovery        *)
(* handlers of the JSON API (app/routes/api.py) with what they answer.     *)
(*                                                                         *)
(* Three groups of variables share the module:                             *)
(*   - the payment gate: phase, rootKey, invoices, settled, ledger,        *)
(*                       pending, req                                      *)
(*   - the directory:    services, ratings, now, nextTok, nextChal,        *)
(*                       raters, creators, outbound, resp, body, rotated,  *)
(*                       served                                            *)
(*   - the verifier and the token hash as functions: fin, fout             *)
(* Each specification moves one group and leaves the others alone.         *)
(***************************************************************************)
EXTENDS Integers, Sequences, FiniteSets, TLC

VARIABLES
    phase,      \* the application: starting, serving, or failed to start
    rootKey,    \* settings.AUTH_ROOT_KEY
    invoices,   \* the payments backend: the invoices created so far
    settled,    \* the payments backend: payment hashes of the paid invoices
    ledger,     \* consumed_payments: the committed rows (payment_hash)
    pending,    \* per request: rows its session has flushed, not committed
    req,        \* per request: the handler's position and what it answered
    services,   \* the services table, by id
    ratings,    \* the ratings table: per service id, the scores
    now,        \* the clock (minutes)
    nextTok,    \* secrets.token_urlsafe: the tokens drawn so far
    nextChal,   \* secrets.token_hex: the challenges drawn so far
    raters,     \* per rating request in steps: its position and its session
    creators,   \* per create request in steps: its position and what its
                \* queries have found
    outbound,   \* per verify call: its outbound HTTP GET, while in flight
    resp,       \* the last response of a directory handler
    body,       \* the JSON of that response
    rotated,    \* history: the domains recovered, the listings that hold
                \* the hash of their domain's last recovery, and for each
                \* recover/verify that succeeded its challenge and its token
    served,     \* the requests the directory has served, and the purges
    fin,        \* the inputs of the verifier, or of the token hash
    fout        \* the result of the verifier, or of the token hash

keyvars  == <<phase, rootKey>>
l402vars == <<phase, rootKey, invoices, settled, ledger, pending, req>>
dirvars  == <<services, ratings, now, nextTok, nextChal, raters, creators,
              outbound, resp, body, rotated, served>>
funvars  == <<fin, fout>>
vars     == <<phase, rootKey, invoices, settled, ledger, pending, req,
              services, ratings, now, nextTok, nextChal, raters, creators,
              outbound, resp, body, rotated, served, fin, fout>>

(***************************************************************************)
(* Bounds of the model.                                                    *)
(***************************************************************************)
MaxReq      == 3    \* requests in one behaviour of the payment gate
MaxInvoices == 2    \* invoices the backend creates
MaxServed   == 3    \* requests and purges in one behaviour of the directory
MaxTime     == 30   \* the clock stops here (minutes)
MaxVerify   == 1    \* recover/verify calls waiting for their GET
MaxRaters   == 2    \* rating requests between their first and last await
MaxTokens   == 6    \* the sample tokens that are hashed
MaxCreators == 2    \* create requests between their queries and their commit

ReqIds    == 1..MaxReq
\* every request may create a row, after the rows the table may start with
SvcIds    == 1..(MaxServed + 2)
VerifyIds == 1..MaxVerify
RaterIds  == 1..MaxRaters
CreatorIds == 1..MaxCreators

(***************************************************************************)
(* Prices (app/config.py).                                                 *)
(***************************************************************************)
AUTH_PRICE_SATS        == 100
AUTH_SUBMIT_PRICE_SATS == 1000
AUTH_REVIEW_PRICE_SATS == 10
AUTH_BULK_PRICE_SATS   == 1000

TestMode  == "test-mode"
RealKey   == "secret"
OtherKey  == "other-key"

(***************************************************************************)
(* SHA-256 of a preimage, as hashlib.sha256(bytes).hexdigest(): injective  *)
(* on the preimages of the model; the even numbers are hashes of nothing.  *)
(***************************************************************************)
Sha256(p) == 2 * p + 11

NoHash == -1

(***************************************************************************)
(* A preimage as the client sends it: hex text, or text that is not hex.   *)
(***************************************************************************)
HexOf(p)  == [hex |-> TRUE, val |-> p]
NotHex    == [hex |-> FALSE, val |-> 0]

(***************************************************************************)
(* Macaroons (pymacaroons).  The signature is the HMAC chain over the      *)
(* identifier and then each caveat, started from the key: it is determined *)
(* by (key, identifier, caveats), and anyone holding a macaroon can chain  *)
(* one more caveat onto its signature without the key.                     *)
(***************************************************************************)
PaymentHashCaveat(h) == [k |-> "payment_hash", v |-> h]
OtherCaveat          == [k |-> "other", v |-> 0]

ChainSig(key, identifier, caveats) ==
    [key |-> key, id |-> identifier, cavs |-> caveats]

NewMacaroon(key, identifier) ==
    [location   |-> "satring",
     identifier |-> identifier,
     caveats    |-> <<>>,
     signature  |-> ChainSig(key, identifier, <<>>)]

add_first_party_caveat(mac, c) ==
    [mac EXCEPT !.caveats   = Append(@, c),
                !.signature = [@ EXCEPT !.cavs = Append(@, c)]]

\* base64 of the serialization, and text that does not decode to a macaroon;
\* junk: characters outside the base64 alphabet, which b64decode discards
B64(mac) == [wf |-> TRUE, junk |-> FALSE, mac |-> mac]
Garbage  == [wf |-> FALSE, junk |-> FALSE, mac |-> NewMacaroon(OtherKey, NoHash)]

mint_macaroon_with(key, payment_hash) ==
    B64(add_first_party_caveat(NewMacaroon(key, payment_hash),
                               PaymentHashCaveat(payment_hash)))

\* mint_macaroon without the caveat of line 56
mint_macaroon_NoCaveat(payment_hash) == B64(NewMacaroon(rootKey, payment_hash))

mint_macaroon(payment_hash) == mint_macaroon_with(rootKey, payment_hash)

\* the value of the first caveat "payment_hash = X", or NoHash
RECURSIVE FirstPaymentHash(_)
FirstPaymentHash(caveats) ==
    IF caveats = <<>> THEN NoHash
    ELSE IF Head(caveats).k = "payment_hash" THEN Head(caveats).v
    ELSE FirstPaymentHash(Tail(caveats))

\* Verifier.verify(mac, key) with satisfy_exact(exact): every first-party
\* caveat is the exact one, and the signature is the chain under key
VerifierVerify(mac, key, exact) ==
    /\ \A i \in 1..Len(mac.caveats) : mac.caveats[i] = exact
    /\ mac.signature = ChainSig(key, mac.identifier, mac.caveats)

\* verify_l402 without the signature check of lines 83-90
verify_l402_NoSignature(wire, preimage_hex) ==
    IF ~wire.wf THEN "false"
    ELSE IF ~preimage_hex.hex THEN "raise"
    ELSE LET payment_hash == FirstPaymentHash(wire.mac.caveats)
         IN  IF payment_hash = NoHash \/ Sha256(preimage_hex.val) # payment_hash
             THEN "false" ELSE "true"

\* "true" / "false", or "raise": bytes.fromhex outside the try block
verify_l402(wire, preimage_hex) ==
    IF ~wire.wf THEN "false"
    ELSE IF ~preimage_hex.hex THEN "raise"
    ELSE LET mac           == wire.mac
             expected_hash == Sha256(preimage_hex.val)
             payment_hash  == FirstPaymentHash(mac.caveats)
         IN  IF payment_hash = NoHash \/ expected_hash # payment_hash
             THEN "false"
             ELSE IF VerifierVerify(mac, rootKey, PaymentHashCaveat(payment_hash))
                  THEN "true" ELSE "false"

(***************************************************************************)
(* The payments backend (LNbits) and the ledger.                           *)
(***************************************************************************)
\* invoice number k has preimage k; its payment_hash is Sha256(k)
Invoice(k, amount, minted) ==
    [pre |-> k, hash |-> Sha256(k), amount |-> amount, minted |-> minted]

InvoiceHashes == {i.hash : i \in invoices}

\* the primary key of consumed_payments: the INSERT of a flush fails when
\* the key is in a committed row or in a row this session has flushed
IntegrityError(r, payment_hash) ==
    payment_hash \in ledger \cup pending[r]

\* the INSERT waits while another session holds the key uncommitted
InsertBlocked(r, payment_hash) ==
    \E o \in ReqIds \ {r} : payment_hash \in pending[o]

\* check_and_consume_payment answers True whatever the flush did
check_and_consume_payment_AlwaysTrue(integrity_error) == TRUE

\* check_and_consume_payment: True after the flush, False after an
\* IntegrityError (and a rollback of the session)
check_and_consume_payment(integrity_error) == ~integrity_error

(***************************************************************************)
(* Requests of the payment gate.                                           *)
(***************************************************************************)
NoAuth == [scheme |-> "none", colon |-> FALSE, mac |-> Garbage, pre |-> NotHex]

Credential(scheme, wire, preimage_hex) ==
    [scheme |-> scheme, colon |-> TRUE, mac |-> wire, pre |-> preimage_hex]

IdleReq ==
    [pc |-> "idle", flow |-> "none", op |-> "none", status |-> 0,
     detail |-> "", presented |-> NoHash, cred |-> NoHash, ph |-> NoHash,
     admitted |-> "none", ran |-> FALSE, chal |-> NoHash]

ApiOps == {"bulk_export", "create_service", "create_rating",
           "analytics", "reputation"}
WebOps == {"submit_service", "rate_service"}

\* every operation at the default price
ApiPrice_Flat(op) == AUTH_PRICE_SATS

\* the price each API operation passes to require_l402; analytics and
\* reputation pass none and get settings.AUTH_PRICE_SATS

ApiPrice(op) ==
    CASE op = "bulk_export"    -> AUTH_BULK_PRICE_SATS
      [] op = "create_service" -> AUTH_SUBMIT_PRICE_SATS
      [] op = "create_rating"  -> AUTH_REVIEW_PRICE_SATS
      [] OTHER                 -> AUTH_PRICE_SATS

WebPrice(op) ==
    IF op = "submit_service" THEN AUTH_SUBMIT_PRICE_SATS
    ELSE AUTH_REVIEW_PRICE_SATS

\* what a client can send: macaroons it was given, macaroons it can build
\* without the root key, and the preimages of the invoices that were paid
ClientMacaroons ==
    {mint_macaroon(i.hash) : i \in {j \in invoices : j.minted}}
    \cup {mint_macaroon_with(OtherKey, i.hash) : i \in invoices}
    \cup {Garbage}

ClientPreimages ==
    {HexOf(i.pre) : i \in {j \in invoices : j.hash \in settled}}
    \cup {HexOf(0), NotHex}

ClientAuths ==
    {NoAuth, [NoAuth EXCEPT !.scheme = "L402"]}
    \cup {Credential(s, m, p) :
            s \in {"L402", "LSAT"}, m \in ClientMacaroons, p \in ClientPreimages}

\* the payment hash a credential is valid for under the root key, or NoHash
ValidFor(auth) ==
    IF auth.colon /\ auth.scheme \in {"L402", "LSAT"}
       /\ auth.mac.wf /\ auth.pre.hex
       /\ verify_l402(auth.mac, auth.pre) = "true"
    THEN FirstPaymentHash(auth.mac.mac.caveats)
    ELSE NoHash

\* require_l402 without the test-mode return of lines 99-101
require_l402_NoBypass(auth) ==
    IF auth.scheme \in {"L402", "LSAT"}
    THEN IF auth.colon /\ verify_l402(auth.mac, auth.pre) = "true"
         THEN [out |-> "return", status |-> 0, detail |-> ""]
         ELSE [out |-> "raise", status |-> 401,
               detail |-> "Invalid L402 credentials"]
    ELSE [out |-> "challenge", status |-> 402, detail |-> "Payment Required"]

\* require_l402 that knows the L402 prefix alone
require_l402_L402Only(auth) ==
    IF rootKey = TestMode THEN [out |-> "return", status |-> 0, detail |-> ""]
    ELSE IF auth.scheme = "L402"
    THEN IF ~auth.colon
         THEN [out |-> "raise", status |-> 401,
               detail |-> "Invalid L402 token format"]
         ELSE LET v == verify_l402(auth.mac, auth.pre)
              IN  IF v = "true"
                  THEN [out |-> "return", status |-> 0, detail |-> ""]
                  ELSE IF v = "false"
                  THEN [out |-> "raise", status |-> 401,
                        detail |-> "Invalid L402 credentials"]
                  ELSE [out |-> "raise", status |-> 500,
                        detail |-> "Internal Server Error"]
    ELSE [out |-> "challenge", status |-> 402, detail |-> "Payment Required"]

\* a create_invoice failure that is answered with the challenge all the same
InvoiceFailed_Challenges(base) ==
    [base EXCEPT !.status = 402, !.detail = "Payment Required"]

\* create_invoice raises (raise_for_status, or the transport): the exception
\* leaves require_l402 and the handler, the server answers 500
InvoiceFailed(base) ==
    [base EXCEPT !.status = 500, !.detail = "Internal Server Error"]

\* require_l402: "return" (authorized), or the status it raises
require_l402(auth) ==
    IF rootKey = TestMode THEN [out |-> "return", status |-> 0, detail |-> ""]
    ELSE IF auth.scheme \in {"L402", "LSAT"}
    THEN IF ~auth.colon
         THEN [out |-> "raise", status |-> 401,
               detail |-> "Invalid L402 token format"]
         ELSE LET v == verify_l402(auth.mac, auth.pre)
              IN  IF v = "true"
                  THEN [out |-> "return", status |-> 0, detail |-> ""]
                  ELSE IF v = "false"
                  THEN [out |-> "raise", status |-> 401,
                        detail |-> "Invalid L402 credentials"]
                  ELSE [out |-> "raise", status |-> 500,
                        detail |-> "Internal Server Error"]
    ELSE [out |-> "challenge", status |-> 402, detail |-> "Payment Required"]

\* an API handler behind require_l402: the guard, and the body when the
\* guard returns.  The record keeps the operation of a request that ran or
\* was challenged.
ApiRequest(r, op, auth, backend_ok) ==
    /\ req[r].pc = "idle"
    /\ LET g == require_l402(auth)
           k == Cardinality(invoices) + 1
           base == [IdleReq EXCEPT !.pc = "done", !.flow = "api",
                                   !.presented = ValidFor(auth)]
       IN  CASE g.out = "return" ->
                  /\ backend_ok
                  /\ req' = [req EXCEPT ![r] =
                        [base EXCEPT !.op = op, !.status = 200,
                                     !.ran = TRUE,
                                     !.cred = ValidFor(auth)]]
                  /\ UNCHANGED invoices
             [] g.out = "raise" ->
                  /\ backend_ok
                  /\ req' = [req EXCEPT ![r] =
                        [base EXCEPT !.status = g.status,
                                     !.detail = g.detail]]
                  /\ UNCHANGED invoices
             [] OTHER ->
                  \* create_invoice, then mint_macaroon, then 402
                  IF backend_ok
                  THEN /\ k <= MaxInvoices
                       /\ invoices' = invoices \cup {Invoice(k, ApiPrice(op), TRUE)}
                       /\ req' = [req EXCEPT ![r] =
                             [base EXCEPT !.op = op, !.status = 402,
                                          !.detail = g.detail,
                                          !.chal = FirstPaymentHash(
                                            mint_macaroon(Sha256(k)).mac.caveats)]]
                  ELSE /\ req' = [req EXCEPT ![r] = InvoiceFailed(base)]
                       /\ UNCHANGED invoices
    /\ UNCHANGED <<keyvars, settled, ledger, pending, dirvars, funvars>>

\* the payer settles an invoice: the backend reports it paid and the payer
\* learns its preimage
PayInvoice(i) ==
    /\ i \in invoices
    /\ i.hash \notin settled
    /\ settled' = settled \cup {i.hash}
    /\ UNCHANGED <<keyvars, invoices, ledger, pending, req, dirvars, funvars>>

\* a check_payment_status that takes every hash as paid
check_payment_status_Trusting(payment_hash, backend) == "true"

\* check_payment_status: the backend's answer to GET /api/v1/payments/<hash>
check_payment_status(payment_hash, backend) ==
    CASE backend = "transport" -> "raise"
      [] backend = "non200"    -> "false"
      [] OTHER -> IF payment_hash \in settled THEN "true" ELSE "false"

\* the payment gate of submit_service and rate_service up to the ledger;
\* the record keeps the operation of the request that was sent to pay
WebGate(r, op, payment_hash, backend) ==
    /\ req[r].pc = "idle"
    /\ LET k == Cardinality(invoices) + 1
           base == [IdleReq EXCEPT !.flow = "web"]
           paid == check_payment_status(payment_hash, backend)
       IN  IF rootKey = TestMode
           THEN /\ backend = "ok" /\ payment_hash = NoHash
                /\ req' = [req EXCEPT ![r] = [base EXCEPT !.pc = "body"]]
                /\ UNCHANGED invoices
           ELSE IF payment_hash = NoHash
           THEN IF backend = "ok"
                THEN /\ k <= MaxInvoices
                     /\ invoices' = invoices \cup {Invoice(k, WebPrice(op), FALSE)}
                     /\ req' = [req EXCEPT ![r] =
                           [base EXCEPT !.pc = "done", !.status = 200,
                                        !.op = op,
                                        !.detail = "payment_required",
                                        !.chal = Sha256(k)]]
                ELSE /\ req' = [req EXCEPT ![r] =
                           [base EXCEPT !.pc = "done", !.status = 500,
                                        !.detail = "Internal Server Error"]]
                     /\ UNCHANGED invoices
           ELSE /\ UNCHANGED invoices
                /\ req' = [req EXCEPT ![r] =
                      CASE paid = "true" ->
                             [base EXCEPT !.pc = "admit", !.ph = payment_hash]
                        [] paid = "false" ->
                             [base EXCEPT !.pc = "done", !.status = 402,
                                          !.detail = "Payment not verified"]
                        [] OTHER ->
                             [base EXCEPT !.pc = "done", !.status = 500,
                                          !.detail = "Internal Server Error"]]
    /\ UNCHANGED <<keyvars, settled, ledger, pending, dirvars, funvars>>

\* check_and_consume_payment in the session of request r
WebAdmit(r) ==
    /\ req[r].pc = "admit"
    /\ ~InsertBlocked(r, req[r].ph)
    /\ LET err == IntegrityError(r, req[r].ph)
       IN  IF check_and_consume_payment(err)
           THEN /\ pending' = [pending EXCEPT ![r] =
                                 IF err THEN {} ELSE @ \cup {req[r].ph}]
                /\ req' = [req EXCEPT ![r].pc = "body",
                                      ![r].admitted = "true",
                                      ![r].cred = req[r].ph]
           ELSE /\ pending' = [pending EXCEPT ![r] = {}]
                /\ req' = [req EXCEPT ![r].pc = "done",
                                      ![r].admitted = "false",
                                      ![r].status = 402,
                                      ![r].detail = "Payment not verified"]
    /\ UNCHANGED <<keyvars, invoices, settled, ledger, dirvars, funvars>>

\* the web handler fails before its commit (the commit of a listing whose
\* slug was taken meanwhile, a cancelled request): the session is closed
\* without a commit and its flushed rows are rolled back
WebAbort(r) ==
    /\ req[r].pc = "body"
    /\ req[r].flow = "web"
    /\ pending' = [pending EXCEPT ![r] = {}]
    /\ req' = [req EXCEPT ![r].pc = "done", ![r].status = 500,
                          ![r].detail = "Internal Server Error"]
    /\ UNCHANGED <<keyvars, invoices, ledger, settled, dirvars, funvars>>

\* the rest of the web handler: the listing or rating, and db.commit()
WebBody(r) ==
    /\ req[r].pc = "body"
    /\ req[r].flow = "web"
    /\ ledger' = ledger \cup pending[r]
    /\ pending' = [pending EXCEPT ![r] = {}]
    /\ req' = [req EXCEPT ![r].pc = "done", ![r].ran = TRUE, ![r].status = 200]
    /\ UNCHANGED <<keyvars, invoices, settled, dirvars, funvars>>

(***************************************************************************)
(* Startup: the lifespan of the application (app/main.py).                 *)
(***************************************************************************)
\* os.getenv("AUTH_ROOT_KEY", ""): the key when the variable is unset
Unset == ""

\* a lifespan that starts with any key
StartupRefused_Never(key) == FALSE

\* "if not settings.AUTH_ROOT_KEY": the lifespan raises RuntimeError
StartupRefused(key) == key = ""

\* the lifespan up to init_db: the check of the key
lifespan ==
    /\ phase = "boot"
    /\ phase' = IF StartupRefused(rootKey) THEN "failed" ELSE "init"
    /\ UNCHANGED <<rootKey, invoices, settled, ledger, pending, req, dirvars,
                   funvars>>

\* init_db and seed_categories, then the yield: the application serves
init_db ==
    /\ phase = "init"
    /\ phase' = "up"
    /\ UNCHANGED <<rootKey, invoices, settled, ledger, pending, req, dirvars,
                   funvars>>

\* a request reaches a handler once the lifespan has yielded
Serving(r, op, auth, backend_ok) ==
    /\ phase = "up"
    /\ ApiRequest(r, op, auth, backend_ok)

(***************************************************************************)
(* The boundary: OriginCheckMiddleware (app/main.py) in front of the       *)
(* routes, and the routes with the gate each one calls.                    *)
(***************************************************************************)
\* the handlers that do not call require_l402
FreeOps == {"list_services", "get_service", "search_services",
            "list_ratings", "api_recover_generate", "api_recover_verify"}
EditOps == {"update_service", "delete_service"}
\* a method no route is registered for
Unrouted == "put"

Method(op) ==
    CASE op \in {"create_service", "create_rating", "api_recover_generate",
                 "api_recover_verify"} -> "POST"
      [] op = "update_service" -> "PATCH"
      [] op = "delete_service" -> "DELETE"
      [] op = Unrouted         -> "PUT"
      [] OTHER                 -> "GET"

\* an Origin header: absent, or its text as urlparse splits it
NoOrigin == [present |-> FALSE, scheme |-> "", host |-> "", port |-> ""]
Origin(scheme, host, port) ==
    [present |-> TRUE, scheme |-> scheme, host |-> host, port |-> port]
\* "Origin:" with nothing after it, and the opaque origin "null"
EmptyOrigin == Origin("", "", "")
NullOrigin  == Origin("", "null", "")

\* settings.BASE_URL
BASE_URL == Origin("https", "satring.com", "")

Origins == {NoOrigin, EmptyOrigin, NullOrigin, BASE_URL,
            Origin("https", "evil.example", ""),
            Origin("https", "satring.com", ":8443"),
            Origin("http", "satring.com", "")}

\* the header as the handler gets it: request.headers.get("origin")
HeaderText(origin) ==
    IF ~origin.present THEN "None"
    ELSE IF origin.scheme = "" /\ origin.host = "" THEN ""
    ELSE "text"

\* urlparse(text).netloc: what is between "//" and the path, the host and
\* the port as written; empty for a text without "//"
Netloc(origin) ==
    IF origin.scheme = "" THEN <<"", "">> ELSE <<origin.host, origin.port>>

\* the middleware without its test of the method
OriginBlocked_AnyMethod(method, origin) ==
    /\ HeaderText(origin) = "text"
    /\ Netloc(origin) # Netloc(BASE_URL)

\* OriginCheckMiddleware.dispatch: the request is answered 403
OriginBlocked(method, origin) ==
    /\ method \in {"POST", "PUT", "DELETE", "PATCH"}
    /\ HeaderText(origin) \notin {"None", ""}
    /\ Netloc(origin) # Netloc(BASE_URL)

\* the boundary serves the requests of this group one after the other
Worker == 1

\* a route whose handler does not call require_l402: its body runs; for a
\* method without a route the framework answers 405
RouteFree(r, op) ==
    /\ req[r].pc = "idle"
    /\ req' = [req EXCEPT ![r] =
          IF op = Unrouted
          THEN [IdleReq EXCEPT !.pc = "done", !.flow = "api",
                               !.status = 405,
                               !.detail = "Method Not Allowed"]
          ELSE [IdleReq EXCEPT !.pc = "done", !.flow = "api", !.op = op,
                               !.status = 200, !.ran = TRUE]]
    /\ UNCHANGED <<keyvars, invoices, settled, ledger, pending, dirvars,
                   funvars>>

\* GET /payment-status/{payment_hash}
payment_status(r, payment_hash, backend) ==
    /\ req[r].pc = "idle"
    /\ req[r].op = "payment_status"
    /\ LET paid == IF rootKey = TestMode THEN "true"
                   ELSE check_payment_status(payment_hash, backend)
           base == [IdleReq EXCEPT !.pc = "done", !.flow = "web",
                                   !.op = "payment_status"]
       IN  req' = [req EXCEPT ![r] =
             IF paid = "raise"
             THEN [base EXCEPT !.status = 500,
                               !.detail = "Internal Server Error"]
             ELSE [base EXCEPT !.status = 200, !.ran = TRUE,
                               !.detail = IF paid = "true" THEN "paid"
                                          ELSE "not paid"]]
    /\ UNCHANGED <<keyvars, invoices, settled, ledger, pending, dirvars,
                   funvars>>

\* OriginCheckMiddleware.dispatch: the request is answered 403, or handed
\* on (call_next) to the route of its operation
OriginCheck(r, op, origin) ==
    /\ req[r].pc = "idle"
    /\ req[r].op = "none"
    /\ req' = [req EXCEPT ![r] =
          IF OriginBlocked(Method(op), origin)
          THEN [IdleReq EXCEPT !.pc = "done", !.flow = "api",
                               !.status = 403,
                               !.detail = "Cross-origin request blocked"]
          ELSE [IdleReq EXCEPT !.op = op]]
    /\ UNCHANGED <<keyvars, invoices, settled, ledger, pending, dirvars,
                   funvars>>

\* the route of the request the middleware handed on
Route(r, auth, backend_ok) ==
    /\ req[r].op \in ApiOps \cup FreeOps \cup EditOps \cup {Unrouted}
    /\ IF req[r].op \in ApiOps
       THEN ApiRequest(r, req[r].op, auth, backend_ok)
       ELSE backend_ok /\ auth = NoAuth /\ RouteFree(r, req[r].op)

\* the response is sent and the request is over
Recycle(r) ==
    /\ req[r].pc = "done"
    /\ req' = [req EXCEPT ![r] = IdleReq]
    /\ UNCHANGED <<keyvars, invoices, settled, ledger, pending, dirvars,
                   funvars>>

(***************************************************************************)
(* The directory: listings, edit tokens, ratings, domain recovery.         *)
(***************************************************************************)
\* a URL: the hostname as written, and the rest
Url(host, path) == [host |-> host, path |-> path]

Urls == {Url("foo.example", "/"), Url("FOO.example", "/v2"), Url("", "/")}

\* str.lower() on the hostnames of the model
Lower(host) == IF host = "FOO.example" THEN "foo.example" ELSE host

\* extract_domain as the hostname with its case kept
extract_domain_KeepCase(url) == url.host

\* extract_domain: urlparse(url).hostname (lowercased) or ""
extract_domain(url) == Lower(url.host)

\* edit_token_hash, domain_challenge: NULL
NullHash    == 0
NoChallenge == 0
\* a token no listing was ever given, and no token at all
WrongToken == 0
NoToken    == -1

\* a hash_token that gives the token back
hash_token_Plain(token) == token

\* hash_token: sha256 hex of the token, injective on the tokens of the model;
\* a digest (64 hex digits) is never the text of a token (43 characters)
hash_token(token) == 100 + token

\* verify_edit_token that accepts whatever is presented
verify_edit_token_AcceptAll(plaintext, stored_hash) == TRUE

\* verify_edit_token: hmac.compare_digest(hash_token(plaintext), stored_hash)
verify_edit_token(plaintext, stored_hash) == hash_token(plaintext) = stored_hash

\* timedelta(minutes=30) of api_recover_generate
CHALLENGE_TTL == 30

NoRow ==
    [status |-> "absent", url |-> Url("", "/"), name |-> "", slug |-> "",
     description |-> "", edit_token_hash |-> NullHash,
     domain_challenge |-> NoChallenge,
     domain_challenge_expires_at |-> 0, domain_verified |-> FALSE,
     avg_rating |-> 0, rating_count |-> 0]

\* Service(...): the column defaults of models.py; avg_rating is kept in
\* tenths (22 is 2.2)
Service(url, name, slug, edit_token_hash) ==
    [status |-> "unverified", url |-> url, name |-> name, slug |-> slug,
     description |-> "", edit_token_hash |-> edit_token_hash,
     domain_challenge |-> NoChallenge,
     domain_challenge_expires_at |-> 0, domain_verified |-> FALSE,
     avg_rating |-> 0, rating_count |-> 0]

Rows    == {id \in SvcIds : services[id].status \notin {"absent", "deleted"}}
\* the rows get_service_or_404 finds
Visible == {id \in Rows : services[id].status # "purged"}

\* Service.url.ilike("%domain%") on the URLs of the model
ILike(url, domain) ==
    \/ domain = ""
    \/ Lower(url.host) = domain
    \/ (url.host = "api.foo.example" /\ domain = "foo.example")

\* get_same_domain_services: no row for an empty domain, else the rows the
\* LIKE finds whose extract_domain equals the domain
get_same_domain_services(url) ==
    LET domain == extract_domain(url)
    IN  IF domain = "" THEN {}
        ELSE {id \in Rows : /\ ILike(services[id].url, domain)
                            /\ extract_domain(services[id].url) = domain}

\* find_purged_service: the purged row with exactly this URL, if any
find_purged_service(url) ==
    {id \in Rows : services[id].status = "purged" /\ services[id].url = url}

\* overwrite_purged_service: the row is reused in place for the new listing
overwrite_purged_service(row, name, slug, edit_token_hash) ==
    [row EXCEPT !.status = "unverified", !.name = name, !.slug = slug,
                !.description = "", !.edit_token_hash = edit_token_hash]

Min(S) == CHOOSE x \in S : \A y \in S : x <= y

\* a response: the status, the detail of an error, the token it carries
Response(status, detail, token) ==
    [status |-> status, detail |-> detail, token |-> token]

NoResponse == Response(0, "", NoToken)

\* a JSON value.  The strings that are a token, a digest or a challenge are
\* kept apart from the other strings by what they are the text of
JStr(s)       == [t |-> "str", s |-> s, n |-> 0]
JNum(n)       == [t |-> "num", s |-> "", n |-> n]
JBool(b)      == [t |-> "bool", s |-> IF b THEN "true" ELSE "false", n |-> 0]
JToken(token) == [t |-> "token", s |-> "", n |-> token]
JDigest(hash) == [t |-> "digest", s |-> "", n |-> hash]
JHex(chal)    == [t |-> "hex", s |-> "", n |-> chal]

\* a JSON body: the fields of the object, as <<key, value>>, and the objects
\* of the list it is or holds; a list-valued field has one pair per element
Json(fields, items) == [fields |-> fields, items |-> items]
NoBody == Json({}, {})

\* HTTPException(detail=...)
ErrorOut(detail) == Json({<<"detail", JStr(detail)>>}, {})

\* str(url) of the URLs of the model
UrlText(url) == "https://" \o url.host \o url.path

\* a response model that passes every column of the row on
ServiceOut_AllColumns(id, row) ==
    {<<"id", JNum(id)>>, <<"name", JStr(row.name)>>,
     <<"slug", JStr(row.slug)>>, <<"url", JStr(UrlText(row.url))>>,
     <<"description", JStr(row.description)>>,
     <<"avg_rating", JNum(row.avg_rating)>>,
     <<"rating_count", JNum(row.rating_count)>>,
     <<"domain_verified", JBool(row.domain_verified)>>,
     <<"status", JStr(row.status)>>,
     <<"edit_token_hash", JDigest(row.edit_token_hash)>>,
     <<"domain_challenge", JHex(row.domain_challenge)>>}

\* ServiceOut.model_validate(row): the fields of the schema that are columns
\* of the model
ServiceOut(id, row) ==
    {<<"id", JNum(id)>>, <<"name", JStr(row.name)>>,
     <<"slug", JStr(row.slug)>>, <<"url", JStr(UrlText(row.url))>>,
     <<"description", JStr(row.description)>>,
     <<"avg_rating", JNum(row.avg_rating)>>,
     <<"rating_count", JNum(row.rating_count)>>,
     <<"domain_verified", JBool(row.domain_verified)>>}

\* ServiceCreateOut: ServiceOut, edit_token and token_reused
ServiceCreateOut(id, row, edit_token, token_reused) ==
    ServiceOut(id, row) \cup {<<"edit_token", JToken(edit_token)>>,
                              <<"token_reused", JBool(token_reused)>>}

\* RatingOut.model_validate(rating): the score
RatingOut(score) == {<<"score", JNum(score)>>}

\* slugify on the names of the model: text.lower(); the names have no
\* blanks, underscores or punctuation for the substitutions to change
slugify(text) == IF text = "A" THEN "a" ELSE text

\* f"{base}-{counter}"
Suffixed(base, counter) == base \o "-" \o ToString(counter)

\* select(Service).where(Service.slug == slug) finds a row
SlugTaken(slug) == \E id \in SvcIds : /\ services[id].status # "absent"
                                       /\ services[id].status # "deleted"
                                       /\ services[id].slug = slug

\* a unique_slug whose query leaves the purged rows out
unique_slug_SkipPurged(text) ==
    LET base == slugify(text)
        taken(slug) == \E id \in SvcIds :
                          /\ services[id].status \notin
                                {"absent", "deleted", "purged"}
                          /\ services[id].slug = slug
    IN  IF ~taken(base) THEN base
        ELSE Suffixed(base, CHOOSE c \in 1..(MaxServed + 2) :
                              /\ ~taken(Suffixed(base, c))
                              /\ \A d \in 1..(c - 1) : taken(Suffixed(base, d)))

\* unique_slug: the base, or the base with the first counter that is free
unique_slug(text) ==
    LET base == slugify(text)
    IN  IF ~SlugTaken(base) THEN base
        ELSE Suffixed(base, CHOOSE c \in 1..(MaxServed + 2) :
                              /\ ~SlugTaken(Suffixed(base, c))
                              /\ \A d \in 1..(c - 1) :
                                    SlugTaken(Suffixed(base, d)))

\* one more request is served
Serve ==
    /\ served < MaxServed
    /\ served' = served + 1

\* the loop of lines 381-386 over the listings of every domain
TokenMatches_AnyDomain(url, existing_edit_token) ==
    {ds \in Rows :
        /\ services[ds].edit_token_hash # NullHash
        /\ verify_edit_token(existing_edit_token, services[ds].edit_token_hash)}

\* the loop of lines 381-386: the same-domain listings whose hash verifies
\* the token
TokenMatches(url, existing_edit_token) ==
    {ds \in get_same_domain_services(url) :
        /\ services[ds].edit_token_hash # NullHash
        /\ verify_edit_token(existing_edit_token, services[ds].edit_token_hash)}

\* lines 396-421 with the insert alone
TargetRow_AlwaysInsert(purged) ==
    Min({id \in SvcIds : services[id].status = "absent"})

\* lines 396-421: the listing goes to the purged row, or to a new row
TargetRow(purged) ==
    IF purged # {} THEN Min(purged)
    ELSE Min({id \in SvcIds : services[id].status = "absent"})

\* create_service after its guard: the token reuse, the purged row, the row
create_service(url, name, existing_edit_token) ==
    LET slug == unique_slug(name)
        matching == TokenMatches(url, existing_edit_token)
        token_reused == existing_edit_token # NoToken /\ matching # {}
        edit_token == IF token_reused THEN existing_edit_token
                      ELSE nextTok + 1
        edit_token_hash ==
            IF token_reused THEN services[Min(matching)].edit_token_hash
            ELSE hash_token(edit_token)
        purged == find_purged_service(url)
        id     == TargetRow(purged)
        joins  == token_reused /\ matching \cap rotated.ids # {}
    IN  /\ Serve
        /\ nextTok' = IF token_reused THEN nextTok ELSE nextTok + 1
        /\ services' = [services EXCEPT ![id] =
              IF purged # {}
              THEN overwrite_purged_service(services[Min(purged)], name, slug,
                                            edit_token_hash)
              ELSE Service(url, name, slug, edit_token_hash)]
        /\ resp' = Response(201, "", edit_token)
        /\ body' = Json(ServiceCreateOut(id, services'[id], edit_token,
                                         token_reused), {})
        /\ rotated' = [rotated EXCEPT !.ids =
              IF joins THEN @ \cup {id} ELSE @ \ {id}]
        /\ UNCHANGED <<ratings, now, nextChal, outbound, l402vars, funvars,
                       raters, creators>>

\* a create request that is not between its queries and its commit
NoCreator ==
    [pc |-> "idle", url |-> Url("", "/"), name |-> "", slug |-> "",
     edit_token |-> NoToken, edit_token_hash |-> NullHash,
     token_reused |-> FALSE, matching |-> {}, purged |-> {}]

\* create_service from unique_slug to find_purged_service (lines 375-396):
\* what the queries of the session find, and the token
create_service_query(c, url, name, existing_edit_token) ==
    LET slug == unique_slug(name)
        matching == TokenMatches(url, existing_edit_token)
        token_reused == existing_edit_token # NoToken /\ matching # {}
        edit_token == IF token_reused THEN existing_edit_token
                      ELSE nextTok + 1
        edit_token_hash ==
            IF token_reused THEN services[Min(matching)].edit_token_hash
            ELSE hash_token(edit_token)
    IN  /\ creators[c].pc = "idle"
        /\ Serve
        /\ nextTok' = IF token_reused THEN nextTok ELSE nextTok + 1
        /\ creators' = [creators EXCEPT ![c] =
              [pc |-> "found", url |-> url, name |-> name, slug |-> slug,
               edit_token |-> edit_token, edit_token_hash |-> edit_token_hash,
               token_reused |-> token_reused, matching |-> matching,
               purged |-> find_purged_service(url)]]
        /\ resp' = Response(0, "", NoToken)
        /\ body' = NoBody
        /\ UNCHANGED <<services, ratings, now, nextChal, outbound, rotated,
                       l402vars, funvars, raters>>

\* Service.slug is UNIQUE (models.py 35): another row holds the slug
SlugConflict(id, slug) ==
    \E j \in Rows \ {id} : services[j].slug = slug

\* create_service at its commit (lines 397-431): the INSERT, or the UPDATE of
\* the purged row, fails when the slug was taken or the row went away
\* meanwhile, and nothing is written
create_service_commit(c) ==
    LET q  == creators[c]
        id == TargetRow(q.purged)
        joins == q.token_reused /\ q.matching \cap rotated.ids # {}
    IN  /\ q.pc = "found"
        /\ creators' = [creators EXCEPT ![c] = NoCreator]
        /\ IF \/ SlugConflict(id, q.slug)
              \/ (q.purged # {} /\ id \notin Rows)
           THEN /\ resp' = Response(500, "Internal Server Error", NoToken)
                /\ body' = ErrorOut("Internal Server Error")
                /\ UNCHANGED <<services, rotated>>
           ELSE /\ services' = [services EXCEPT ![id] =
                      IF q.purged # {}
                      THEN overwrite_purged_service(services[id], q.name,
                                                    q.slug, q.edit_token_hash)
                      ELSE Service(q.url, q.name, q.slug, q.edit_token_hash)]
                /\ resp' = Response(201, "", q.edit_token)
                /\ body' = Json(ServiceCreateOut(id, services'[id],
                                                 q.edit_token, q.token_reused),
                                {})
                /\ rotated' = [rotated EXCEPT !.ids =
                      IF joins THEN @ \cup {id} ELSE @ \ {id}]
        /\ UNCHANGED <<ratings, now, nextTok, nextChal, outbound, served,
                       l402vars, funvars, raters>>

\* get_service_or_404 did not find the listing
NotFound(id) ==
    /\ id \notin Visible
    /\ resp' = Response(404, "Service not found", NoToken)
    /\ body' = ErrorOut("Service not found")
    /\ UNCHANGED <<services, ratings, nextTok, nextChal, outbound, rotated>>

\* a read: nothing is written
ReadOnly ==
    UNCHANGED <<services, ratings, now, nextTok, nextChal, outbound, rotated,
                l402vars, funvars, raters, creators>>

\* paginated_services: the first page of the rows of the query, and the total
paginated_services(rows) ==
    Json({<<"total", JNum(Cardinality(rows))>>, <<"page", JNum(1)>>,
          <<"page_size", JNum(20)>>},
         {ServiceOut(id, services[id]) : id \in rows})

\* select(Service).where(Service.status != "purged")
Listed == {id \in Rows : services[id].status # "purged"}

\* GET /services
list_services ==
    /\ Serve
    /\ resp' = Response(200, "", NoToken)
    /\ body' = paginated_services(Listed)
    /\ ReadOnly

\* name ILIKE %q% on the names of the model, which are one letter long
NameILike(name, q) == name = q

\* GET /search
search_services(q) ==
    /\ Serve
    /\ resp' = Response(200, "", NoToken)
    /\ body' = paginated_services(
                  IF q = "" THEN Listed
                  ELSE {id \in Listed : NameILike(services[id].name, q)})
    /\ ReadOnly

\* GET /services/bulk after its guard
bulk_export ==
    /\ Serve
    /\ resp' = Response(200, "", NoToken)
    /\ body' = Json({}, {ServiceOut(id, services[id]) : id \in Listed})
    /\ ReadOnly

\* GET /services/{slug}
get_service(id) ==
    /\ Serve
    /\ \/ NotFound(id)
       \/ /\ id \in Visible
          /\ resp' = Response(200, "", NoToken)
          /\ body' = Json(ServiceOut(id, services[id]), {})
          /\ UNCHANGED <<services, ratings, nextTok, nextChal, outbound,
                         rotated>>
    /\ UNCHANGED <<now, l402vars, funvars, raters, creators>>

\* GET /services/{slug}/ratings
list_ratings(id) ==
    /\ Serve
    /\ \/ NotFound(id)
       \/ /\ id \in Visible
          /\ resp' = Response(200, "", NoToken)
          /\ body' = Json({}, {RatingOut(ratings[id][k]) :
                                 k \in 1..Len(ratings[id])})
          /\ UNCHANGED <<services, ratings, nextTok, nextChal, outbound,
                         rotated>>
    /\ UNCHANGED <<now, l402vars, funvars, raters, creators>>

\* GET /analytics after its guard: the totals over the listings
analytics ==
    /\ Serve
    /\ resp' = Response(200, "", NoToken)
    /\ body' = Json({<<"total_services", JNum(Cardinality(Listed))>>,
                     <<"domain_verified_count",
                       JNum(Cardinality({id \in Listed :
                                           services[id].domain_verified}))>>},
                    {})
    /\ ReadOnly

\* a rating request that is not under way
NoRater == [pc |-> "idle", id |-> 0, score |-> 0, avg |-> 0, count |-> 0]

\* SQLite has one writer: a session that has flushed keeps the write lock of
\* the database until it commits
Locked_Never == FALSE
Locked == \E r \in RaterIds : raters[r].pc \in {"flushed", "aggregated"}

RECURSIVE Sum(_)
Sum(scores) ==
    IF scores = <<>> THEN 0 ELSE Head(scores) + Sum(Tail(scores))

\* round(x, 1) that cuts the digits off
round1_Floor(total, count) == (10 * total) \div count

\* round(float(total / count), 1) in tenths: the nearest tenth, and the even
\* one when the mean lies halfway (an exact multiple of 0.25)
round1(total, count) ==
    LET q == (10 * total) \div count
        r == (10 * total) % count
    IN  IF 2 * r < count THEN q
        ELSE IF 2 * r > count THEN q + 1
        ELSE IF q % 2 = 0 THEN q ELSE q + 1

\* lines 587-594: func.avg and func.count over the scores, the mean rounded
Aggregate(scores) ==
    [avg |-> round1(Sum(scores), Len(scores)), count |-> Len(scores)]

\* lines 593-594: the two columns of the listing
Rated(id, row) ==
    [services EXCEPT ![id].avg_rating = row.avg,
                     ![id].rating_count = row.count]

\* the check of lines 444 and 475
EditAllowed(id, x_edit_token) ==
    /\ services[id].edit_token_hash # NullHash
    /\ verify_edit_token(x_edit_token, services[id].edit_token_hash)

\* ServiceUpdate: the fields of the body, "" for a field it leaves out (None)
ServiceUpdate(name, description) ==
    [name |-> name, description |-> description]

\* a loop that assigns every field of the body, None or not
Patched_EveryField(row, patch) ==
    [row EXCEPT !.name = patch.name, !.description = patch.description]

\* the loop of lines 447-450: the fields of the body that are not None are
\* assigned to the row
Patched(row, patch) ==
    [row EXCEPT !.name = IF patch.name # "" THEN patch.name ELSE @,
                !.description =
                   IF patch.description # "" THEN patch.description ELSE @]

\* PATCH /services/{slug}; patch is its body
update_service(id, x_edit_token, patch) ==
    /\ Serve
    /\ \/ NotFound(id)
       \/ /\ id \in Visible
          /\ IF ~EditAllowed(id, x_edit_token)
             THEN /\ resp' = Response(403, "Invalid edit token", NoToken)
                  /\ body' = ErrorOut("Invalid edit token")
                  /\ UNCHANGED services
             ELSE /\ services' = [services EXCEPT ![id] = Patched(@, patch)]
                  /\ resp' = Response(200, "", NoToken)
                  /\ body' = Json(ServiceOut(id, services'[id]), {})
          /\ UNCHANGED <<ratings, nextTok, nextChal, outbound, rotated>>
    /\ UNCHANGED <<now, l402vars, funvars, raters, creators>>

\* a relationship without the delete cascade
CascadeRatings_Keep(id) == ratings

\* Service.ratings, cascade "all, delete-orphan": the ratings of a deleted
\* row are deleted with it
CascadeRatings(id) == [ratings EXCEPT ![id] = <<>>]

\* DELETE /services/{slug}; the ratings go with the row (cascade)
delete_service(id, x_edit_token) ==
    /\ Serve
    /\ \/ NotFound(id)
       \/ /\ id \in Visible
          /\ IF ~EditAllowed(id, x_edit_token)
             THEN /\ resp' = Response(403, "Invalid edit token", NoToken)
                  /\ body' = ErrorOut("Invalid edit token")
                  /\ UNCHANGED <<services, ratings, rotated>>
             ELSE /\ services' = [services EXCEPT ![id] =
                                    [NoRow EXCEPT !.status = "deleted"]]
                  /\ ratings' = CascadeRatings(id)
                  /\ rotated' = [rotated EXCEPT !.ids = @ \ {id}]
                  /\ resp' = Response(200, "", NoToken)
                  /\ body' = Json({<<"deleted", JStr(services[id].slug)>>},
                                  {})
          /\ UNCHANGED <<nextTok, nextChal, outbound>>
    /\ UNCHANGED <<now, l402vars, funvars, raters, creators>>

\* POST /services/{slug}/ratings after its guard
create_rating(id, score) ==
    /\ Serve
    /\ \/ NotFound(id)
       \/ /\ id \in Visible
          /\ ratings' = [ratings EXCEPT ![id] = Append(@, score)]
          /\ services' = Rated(id, Aggregate(ratings'[id]))
          /\ resp' = Response(201, "", NoToken)
          /\ body' = Json(RatingOut(score), {})
          /\ UNCHANGED <<nextTok, nextChal, outbound, rotated>>
    /\ UNCHANGED <<now, l402vars, funvars, raters, creators>>

\* create_rating up to its flush (lines 577-584): the listing is loaded
create_rating_load(r, id, score) ==
    /\ raters[r].pc = "idle"
    /\ Serve
    /\ \/ NotFound(id) /\ UNCHANGED raters
       \/ /\ id \in Visible
          /\ raters' = [raters EXCEPT ![r] =
                          [NoRater EXCEPT !.pc = "loaded", !.id = id,
                                          !.score = score]]
          /\ resp' = Response(0, "", NoToken)
          /\ body' = NoBody
          /\ UNCHANGED <<services, ratings, nextTok, nextChal, outbound,
                         rotated>>
    /\ UNCHANGED <<now, l402vars, funvars, creators>>

\* await db.flush() (line 585): the INSERT takes the write lock of the
\* database, or gives up when another session keeps it
create_rating_flush(r) ==
    /\ raters[r].pc = "loaded"
    /\ IF Locked
       THEN /\ raters' = [raters EXCEPT ![r] = NoRater]
            /\ resp' = Response(500, "Internal Server Error", NoToken)
            /\ body' = ErrorOut("Internal Server Error")
       ELSE /\ raters' = [raters EXCEPT ![r].pc = "flushed"]
            /\ UNCHANGED <<resp, body>>
    /\ UNCHANGED <<services, ratings, now, nextTok, nextChal, outbound,
                   rotated, served, l402vars, funvars, creators>>

\* lines 587-594: AVG and COUNT over the committed ratings of the listing and
\* the one this session has flushed
create_rating_aggregate(r) ==
    /\ raters[r].pc = "flushed"
    /\ LET row == Aggregate(Append(ratings[raters[r].id], raters[r].score))
       IN  raters' = [raters EXCEPT ![r].pc = "aggregated",
                                    ![r].avg = row.avg,
                                    ![r].count = row.count]
    /\ UNCHANGED <<services, ratings, now, nextTok, nextChal, outbound, resp,
                   body, rotated, served, l402vars, funvars,
                   creators>>

\* await db.commit() (line 595): the rating and the two columns are written
\* together; the UPDATE of a listing deleted meanwhile matches no row, the
\* flush raises and the rating is rolled back
create_rating_commit(r) ==
    /\ raters[r].pc = "aggregated"
    /\ raters' = [raters EXCEPT ![r] = NoRater]
    /\ LET id == raters[r].id
       IN  IF id \notin Rows
           THEN /\ resp' = Response(500, "Internal Server Error", NoToken)
                /\ body' = ErrorOut("Internal Server Error")
                /\ UNCHANGED <<services, ratings>>
           ELSE /\ ratings' = [ratings EXCEPT ![id] =
                                 Append(@, raters[r].score)]
                /\ services' = Rated(id, raters[r])
                /\ resp' = Response(201, "", NoToken)
                /\ body' = Json(RatingOut(raters[r].score), {})
    /\ UNCHANGED <<now, nextTok, nextChal, outbound, rotated, served,
                   l402vars, funvars, creators>>

\* domain_root on the URLs of the model
domain_root(url) == "https://" \o url.host

\* what recover/generate answers
ChallengeOut(challenge, url) ==
    {<<"challenge", JHex(challenge)>>,
     <<"verify_url",
       JStr(domain_root(url) \o "/.well-known/satring-verify")>>,
     <<"expires_in_minutes", JNum(30)>>}

\* an issue that also takes the edit token from the listing
api_recover_generate_DropsToken(id) ==
    /\ Serve
    /\ \/ NotFound(id)
       \/ /\ id \in Visible
          /\ nextChal' = nextChal + 1
          /\ services' = [services EXCEPT
                ![id].domain_challenge = nextChal + 1,
                ![id].domain_challenge_expires_at = now + CHALLENGE_TTL,
                ![id].edit_token_hash = NullHash]
          /\ resp' = Response(200, "", NoToken)
          /\ body' = Json(ChallengeOut(nextChal + 1, services[id].url), {})
          /\ UNCHANGED <<ratings, nextTok, outbound, rotated>>
    /\ UNCHANGED <<now, l402vars, funvars, raters, creators>>

\* POST /services/{slug}/recover/generate
api_recover_generate(id) ==
    /\ Serve
    /\ \/ NotFound(id)
       \/ /\ id \in Visible
          /\ nextChal' = nextChal + 1
          /\ services' = [services EXCEPT
                ![id].domain_challenge = nextChal + 1,
                ![id].domain_challenge_expires_at = now + CHALLENGE_TTL]
          /\ resp' = Response(200, "", NoToken)
          /\ body' = Json(ChallengeOut(nextChal + 1, services[id].url), {})
          /\ UNCHANGED <<ratings, nextTok, outbound, rotated>>
    /\ UNCHANGED <<now, l402vars, funvars, raters, creators>>

\* what the resolver answers for a hostname: the kinds of its addresses
DnsAnswers == {{}, {"public"}, {"loopback"}, {"public", "private"},
               {"link-local"}, {"reserved"}}

\* is_public_hostname that lets every hostname through
is_public_hostname_AllowAll(addrs) == TRUE

\* is_public_hostname: the name resolves, and to public addresses only
is_public_hostname(addrs) ==
    addrs # {} /\ \A a \in addrs : a = "public"

\* the check of lines 501-505 without the comparison with the clock
ActiveChallenge_NoExpiry(id) ==
    services[id].domain_challenge # NoChallenge

\* the check of lines 501-505: a challenge, and an expiry after now
ActiveChallenge(id) ==
    /\ services[id].domain_challenge # NoChallenge
    /\ services[id].domain_challenge_expires_at > now

PrivateDetail ==
    "Cannot verify domain: hostname resolves to a private or unreachable address"

\* seen is history: the non-purged listings the domain had when the query of
\* line 527 ran
NoGet == [pc |-> "idle", id |-> 0, challenge |-> NoChallenge, loaded |-> {},
          seen |-> {}]

\* the check of line 512 without the resolver
PrivateOrUnreachable_EmptyOnly(hostname, addrs) == hostname = ""

\* the check of line 512
PrivateOrUnreachable(hostname, addrs) ==
    hostname = "" \/ ~is_public_hostname(addrs)

\* POST /services/{slug}/recover/verify up to its GET (lines 499-517)
api_recover_verify(v, id, addrs) ==
    /\ outbound[v].pc = "idle"
    /\ Serve
    /\ \/ NotFound(id)
       \/ /\ id \in Visible
          /\ LET hostname == extract_domain(services[id].url)
             IN  IF ~ActiveChallenge(id)
                 THEN /\ resp' = Response(400,
                            "No active challenge or challenge expired", NoToken)
                      /\ body' = ErrorOut(
                            "No active challenge or challenge expired")
                      /\ UNCHANGED outbound
                 ELSE IF PrivateOrUnreachable(hostname, addrs)
                 THEN /\ resp' = Response(400, PrivateDetail, NoToken)
                      /\ body' = ErrorOut(PrivateDetail)
                      /\ UNCHANGED outbound
                 ELSE /\ outbound' = [outbound EXCEPT ![v] =
                            [pc |-> "get", id |-> id,
                             challenge |-> services[id].domain_challenge,
                             loaded |-> {}, seen |-> {}]]
                      /\ resp' = Response(0, "", NoToken)
                      /\ body' = NoBody
          /\ UNCHANGED <<services, ratings, nextTok, nextChal, rotated>>
    /\ UNCHANGED <<now, l402vars, funvars, raters, creators>>

\* what the GET brings back: a failure, or a body
Failure == [ok |-> FALSE, pad |-> FALSE, text |-> NoChallenge]
Body(pad, text) == [ok |-> TRUE, pad |-> pad, text |-> text]
\* str.strip()
Strip(fetched) == fetched.text

\* a rotation that clears the challenge and leaves its expiry
Rotate_KeepsExpiry(id, loaded, new_hash) ==
    [i \in SvcIds |->
       IF i = id
       THEN [services[i] EXCEPT !.edit_token_hash = new_hash,
                                !.domain_verified = TRUE,
                                !.domain_challenge = NoChallenge]
       ELSE IF i \in loaded
       THEN [services[i] EXCEPT !.edit_token_hash = new_hash,
                                !.domain_verified = TRUE]
       ELSE services[i]]

\* lines 525-534: the new hash on the rows the query of line 527 loaded and
\* on the row itself, whose challenge is cleared
Rotate(id, loaded, new_hash) ==
    [i \in SvcIds |->
       IF i = id
       THEN [services[i] EXCEPT !.edit_token_hash = new_hash,
                                !.domain_verified = TRUE,
                                !.domain_challenge = NoChallenge,
                                !.domain_challenge_expires_at = 0]
       ELSE IF i \in loaded
       THEN [services[i] EXCEPT !.edit_token_hash = new_hash,
                                !.domain_verified = TRUE]
       ELSE services[i]]

\* a verify that drops the challenge it has just compared, matching or not
VerifyCommit_DropsChallenge(v, matched, new_hash) ==
    IF matched THEN Rotate(outbound[v].id, outbound[v].loaded, new_hash)
    ELSE [services EXCEPT ![outbound[v].id].domain_challenge = NoChallenge,
                          ![outbound[v].id].domain_challenge_expires_at = 0]

\* the rows after lines 522-535: a mismatch raises before any write
VerifyCommit(v, matched, new_hash) ==
    IF matched THEN Rotate(outbound[v].id, outbound[v].loaded, new_hash)
    ELSE services

\* what a successful recover/verify answers
RecoveredOut(new_token, domain_services) ==
    {<<"edit_token", JToken(new_token)>>} \cup
    {<<"affected_services", JStr(services[ds].slug)>> : ds \in domain_services}

\* recover/verify from the answer of its GET to the rows its query loads
\* (lines 518-527); the rows are written when the session commits
api_recover_verify_resume(v, answer) ==
    /\ outbound[v].pc = "get"
    /\ LET id == outbound[v].id
           matched == Strip(answer) = outbound[v].challenge
       IN  IF ~answer.ok
           THEN /\ resp' = Response(502, "Could not reach", NoToken)
                /\ body' = ErrorOut("Could not reach")
                /\ outbound' = [outbound EXCEPT ![v] = NoGet]
                /\ UNCHANGED services
           ELSE IF ~matched
           THEN /\ resp' = Response(403, "Challenge code does not match",
                                    NoToken)
                /\ body' = ErrorOut("Challenge code does not match")
                /\ outbound' = [outbound EXCEPT ![v] = NoGet]
                /\ services' = IF id \in Rows
                               THEN VerifyCommit(v, FALSE, NullHash)
                               ELSE services
           ELSE /\ outbound' = [outbound EXCEPT
                      ![v].pc = "commit",
                      ![v].loaded = get_same_domain_services(services[id].url),
                      ![v].seen = {i \in Visible :
                                     Lower(services[i].url.host)
                                        = Lower(services[id].url.host)}]
                /\ UNCHANGED <<services, resp, body>>
    /\ UNCHANGED <<ratings, now, nextTok, nextChal, rotated, served,
                   l402vars, funvars, raters, creators>>

\* the rows the session of verify call v has changed
Dirty(v) == outbound[v].loaded \cup {outbound[v].id}

\* recover/verify at its commit (lines 535-539): the UPDATE of a row that went
\* away meanwhile matches nothing, the flush raises and nothing is written
api_recover_verify_commit(v) ==
    /\ outbound[v].pc = "commit"
    /\ outbound' = [outbound EXCEPT ![v] = NoGet]
    /\ LET id == outbound[v].id
           new_token == nextTok + 1
           domain == Lower(services[id].url.host)
       IN  IF ~(Dirty(v) \subseteq Rows)
           THEN /\ resp' = Response(500, "Internal Server Error", NoToken)
                /\ body' = ErrorOut("Internal Server Error")
                /\ UNCHANGED <<services, nextTok, rotated>>
           ELSE /\ nextTok' = new_token
                /\ services' = VerifyCommit(v, TRUE, hash_token(new_token))
                /\ rotated' = [domains |-> rotated.domains \cup {domain},
                               ids |-> {i \in rotated.ids :
                                          Lower(services[i].url.host) # domain}
                                       \cup outbound[v].seen,
                               wins |-> rotated.wins \cup
                                  {[challenge |-> outbound[v].challenge,
                                    token |-> new_token, id |-> id]}]
                /\ resp' = Response(200, "", new_token)
                /\ body' = Json(RecoveredOut(new_token, outbound[v].loaded),
                                {})
    /\ UNCHANGED <<ratings, now, nextChal, served, l402vars, funvars, raters,
                   creators>>

\* the health monitor retires a listing
Purge(id) ==
    /\ id \in Visible
    /\ Serve
    /\ services' = [services EXCEPT ![id].status = "purged"]
    /\ UNCHANGED <<ratings, now, nextTok, nextChal, outbound, resp, body,
                   rotated, l402vars, funvars, raters, creators>>

\* half an hour passes
Tick ==
    /\ now < MaxTime
    /\ now' = now + 30
    /\ UNCHANGED <<services, ratings, nextTok, nextChal, outbound, resp,
                   body, rotated, served, l402vars, funvars, raters, creators>>

(***************************************************************************)
(* The verifier as a function: mint, alter the macaroon on its way, verify.*)
(***************************************************************************)
TamperModes == {"none", "identifier", "caveat", "signature", "append",
                "append_hash", "strip", "garble", "location", "junk"}

\* what a holder of the macaroon can do to it without the root key; p is
\* the preimage the holder is going to present
Tamper(mode, wire, p) ==
    LET mac == wire.mac
    IN  CASE mode = "identifier" ->
               B64([mac EXCEPT !.identifier = Sha256(p)])
          [] mode = "caveat" ->
               B64([mac EXCEPT !.caveats = <<PaymentHashCaveat(Sha256(p))>>])
          [] mode = "signature" ->
               B64([mac EXCEPT !.signature =
                      ChainSig(OtherKey, mac.identifier, mac.caveats)])
          [] mode = "append" ->
               B64(add_first_party_caveat(mac, OtherCaveat))
          [] mode = "append_hash" ->
               B64(add_first_party_caveat(mac, PaymentHashCaveat(Sha256(p))))
          [] mode = "strip" ->
               B64([mac EXCEPT !.caveats = <<>>])
          [] mode = "garble" -> Garbage
          [] mode = "location" ->
               B64([mac EXCEPT !.location = "elsewhere"])
          [] mode = "junk" -> [wire EXCEPT !.junk = TRUE]
          [] OTHER -> wire

FunHashes    == {Sha256(1), Sha256(2), 4}
FunPreimages == {HexOf(0), HexOf(1), HexOf(2), NotHex}

FunInit ==
    /\ fin \in [h : FunHashes, mintKey : {RealKey, OtherKey},
                tamper : TamperModes, pre : FunPreimages]
    /\ fout = [stage |-> "start", wire |-> Garbage, res |-> "none"]

FunMint ==
    /\ fout.stage = "start"
    /\ fout' = [fout EXCEPT !.stage = "minted",
                            !.wire = mint_macaroon_with(fin.mintKey, fin.h)]
    /\ UNCHANGED <<fin, l402vars, dirvars>>

FunSend ==
    /\ fout.stage = "minted"
    /\ fout' = [fout EXCEPT !.stage = "sent",
                            !.wire = Tamper(fin.tamper, @, fin.pre.val)]
    /\ UNCHANGED <<fin, l402vars, dirvars>>

FunVerify ==
    /\ fout.stage = "sent"
    /\ fout' = [fout EXCEPT !.stage = "done",
                            !.res = verify_l402(fout.wire, fin.pre)]
    /\ UNCHANGED <<fin, l402vars, dirvars>>

(***************************************************************************)
(* Specifications.                                                         *)
(***************************************************************************)
L402Idle ==
    /\ phase = "up"
    /\ invoices = {}
    /\ settled = {}
    /\ ledger = {}
    /\ pending = [r \in ReqIds |-> {}]
    /\ req = [r \in ReqIds |-> IdleReq]

DirIdle ==
    /\ services = [id \in SvcIds |-> NoRow]
    /\ ratings = [id \in SvcIds |-> <<>>]
    /\ now = 0
    /\ nextTok = 0
    /\ nextChal = 0
    /\ raters = [r \in RaterIds |-> NoRater]
    /\ creators = [c \in CreatorIds |-> NoCreator]
    /\ outbound = [v \in VerifyIds |-> NoGet]
    /\ resp = NoResponse
    /\ body = NoBody
    /\ rotated = [domains |-> {}, ids |-> {}, wins |-> {}]
    /\ served = 0

FunIdle ==
    /\ fin = 0
    /\ fout = 0

\* the operations the payment-gate specification draws from: two prices
GateApiOps == {"bulk_export", "create_rating"}

\* requests take the ids in order
FirstIdle(r) == \A o \in ReqIds : o < r => req[o].pc # "idle"

WebHashes == InvoiceHashes \cup {NoHash}

L402Init ==
    /\ rootKey \in {RealKey, TestMode}
    /\ L402Idle
    /\ DirIdle
    /\ FunIdle

L402Next ==
    \/ \E r \in ReqIds, op \in GateApiOps, auth \in ClientAuths,
         backend_ok \in BOOLEAN :
            FirstIdle(r) /\ ApiRequest(r, op, auth, backend_ok)
    \/ \E i \in invoices : PayInvoice(i)
    \/ \E r \in ReqIds, op \in WebOps, h \in WebHashes,
         backend \in {"ok", "non200", "transport"} :
            FirstIdle(r) /\ WebGate(r, op, h, backend)
    \/ \E r \in ReqIds : WebAdmit(r)
    \/ \E r \in ReqIds : WebAbort(r)
    \/ \E r \in ReqIds : WebBody(r)

SpecL402 == L402Init /\ [][L402Next]_vars

\* every route, behind the middleware
EdgeOps == ApiOps \cup FreeOps \cup EditOps \cup {Unrouted, "payment_status"}

\* the headers a request comes with: none, one that does not verify, and
\* the credentials of the paid invoices
EdgeAuths ==
    {NoAuth, Credential("L402", Garbage, HexOf(0))}
    \cup {Credential("LSAT", mint_macaroon(i.hash), HexOf(i.pre)) :
            i \in {j \in invoices : j.minted /\ j.hash \in settled}}

EdgeNext ==
    \/ \E op \in EdgeOps, origin \in Origins :
            OriginCheck(Worker, op, origin)
    \/ \E auth \in EdgeAuths, backend_ok \in BOOLEAN :
            Route(Worker, auth, backend_ok)
    \/ \E h \in WebHashes, backend \in {"ok", "non200", "transport"} :
            payment_status(Worker, h, backend)
    \/ \E i \in invoices : PayInvoice(i)
    \/ Recycle(Worker)

SpecEdge == L402Init /\ [][EdgeNext]_vars

\* the guard alone: one worker takes the requests one after the other, with
\* every header a client can send
GuardNext ==
    \/ \E op \in GateApiOps, auth \in ClientAuths, backend_ok \in BOOLEAN :
            ApiRequest(Worker, op, auth, backend_ok)
    \/ \E i \in invoices : PayInvoice(i)
    \/ Recycle(Worker)

SpecGuard == L402Init /\ [][GuardNext]_vars

\* the application from its start, with the key set, unset or "test-mode"
StartInit ==
    /\ phase = "boot"
    /\ rootKey \in {Unset, RealKey, TestMode}
    /\ invoices = {}
    /\ settled = {}
    /\ ledger = {}
    /\ pending = [r \in ReqIds |-> {}]
    /\ req = [r \in ReqIds |-> IdleReq]
    /\ DirIdle
    /\ FunIdle

StartNext ==
    \/ lifespan
    \/ init_db
    \/ \E op \in GateApiOps, auth \in ClientAuths, backend_ok \in BOOLEAN :
            Serving(Worker, op, auth, backend_ok)
    \/ \E i \in invoices : PayInvoice(i)
    \/ Recycle(Worker)

SpecStart == StartInit /\ [][StartNext]_vars

(***************************************************************************)
(* Edit tokens as strings: hashlib.sha256(token.encode()).hexdigest().     *)
(* The directory above numbers its tokens and writes hash_token for this   *)
(* function; here it is computed, on tokens given as their code points.    *)
(***************************************************************************)
\* a 32-bit word is the pair <<high, low>> of its 16-bit halves
RECURSIVE Xor16(_, _, _)
Xor16(x, y, bits) ==
    IF bits = 0 THEN 0
    ELSE ((x + y) % 2) + 2 * Xor16(x \div 2, y \div 2, bits - 1)

RECURSIVE And16(_, _, _)
And16(x, y, bits) ==
    IF bits = 0 THEN 0
    ELSE ((x % 2) * (y % 2)) + 2 * And16(x \div 2, y \div 2, bits - 1)

Xor(a, b) == <<Xor16(a[1], b[1], 16), Xor16(a[2], b[2], 16)>>
And(a, b) == <<And16(a[1], b[1], 16), And16(a[2], b[2], 16)>>

\* the sum of the words of a sequence, modulo 2^32
RECURSIVE SumHalf(_, _)
SumHalf(ws, half) ==
    IF ws = <<>> THEN 0 ELSE Head(ws)[half] + SumHalf(Tail(ws), half)

Add(ws) ==
    LET low == SumHalf(ws, 2)
    IN  <<(SumHalf(ws, 1) + (low \div 65536)) % 65536, low % 65536>>

\* rotation and shift to the right by n bits, 0 < n < 32
Rotr(a, n) ==
    LET hi == IF n < 16 THEN a[1] ELSE a[2]
        lo == IF n < 16 THEN a[2] ELSE a[1]
        m  == n % 16
    IN  <<(hi \div 2^m) + (lo % 2^m) * 2^(16 - m),
          (lo \div 2^m) + (hi % 2^m) * 2^(16 - m)>>

Shr(a, n) ==
    IF n < 16
    THEN <<a[1] \div 2^n, (a[2] \div 2^n) + (a[1] % 2^n) * 2^(16 - n)>>
    ELSE <<0, a[1] \div 2^(n - 16)>>

\* the functions of FIPS 180-4, section 4.1.2
Ch(x, y, z)    == Xor(z, And(x, Xor(y, z)))
Maj(x, y, z)   == Xor(And(x, y), And(z, Xor(x, y)))
BigSigma0(x)   == Xor(Xor(Rotr(x, 2), Rotr(x, 13)), Rotr(x, 22))
BigSigma1(x)   == Xor(Xor(Rotr(x, 6), Rotr(x, 11)), Rotr(x, 25))
SmallSigma0(x) == Xor(Xor(Rotr(x, 7), Rotr(x, 18)), Shr(x, 3))
SmallSigma1(x) == Xor(Xor(Rotr(x, 17), Rotr(x, 19)), Shr(x, 10))

\* the round constants and the initial hash value
SHA256_K ==
    <<
        <<17034, 12184>>, <<28983, 17553>>, <<46528, 64463>>, <<59829, 56229>>,
        <<14678, 49755>>, <<23025, 4593>>, <<37439, 33444>>, <<43804, 24277>>,
        <<55303, 43672>>, <<4739, 23297>>, <<9265, 34238>>, <<21772, 32195>>,
        <<29374, 23924>>, <<32990, 45566>>, <<39900, 1703>>, <<49563, 61812>>,
        <<58523, 27073>>, <<61374, 18310>>, <<4033, 40390>>, <<9228, 41420>>,
        <<11753, 11375>>, <<19060, 33962>>, <<23728, 43484>>, <<30457, 35034>>,
        <<38974, 20818>>, <<43057, 50797>>, <<45059, 10184>>, <<48985, 32711>>,
        <<50912, 3059>>, <<54695, 37191>>, <<1738, 25425>>, <<5161, 10599>>,
        <<10167, 2693>>, <<11803, 8504>>, <<19756, 28156>>, <<21304, 3347>>,
        <<25866, 29524>>, <<30314, 2747>>, <<33218, 51502>>, <<37490, 11397>>,
        <<41663, 59553>>, <<43034, 26187>>, <<49739, 35696>>, <<51052, 20899>>,
        <<53650, 59417>>, <<54937, 1572>>, <<62478, 13701>>, <<4202, 41072>>,
        <<6564, 49430>>, <<7735, 27656>>, <<10056, 30540>>, <<13488, 48309>>,
        <<14620, 3251>>, <<20184, 43594>>, <<23452, 51791>>, <<26670, 28659>>,
        <<29839, 33518>>, <<30885, 25455>>, <<33992, 30740>>, <<36039, 520>>,
        <<37054, 65530>>, <<42064, 27883>>, <<48889, 41975>>, <<50801, 30962>>>>

SHA256_H0 ==
    <<
        <<27145, 58983>>, <<47975, 44677>>, <<15470, 62322>>, <<42319, 62778>>,
        <<20750, 21119>>, <<39685, 26764>>, <<8067, 55723>>, <<23520, 52505>>>>

\* str.encode(): UTF-8 of the code points (below 65536) of the token
RECURSIVE encode(_)
encode(token) ==
    IF token = <<>> THEN <<>>
    ELSE LET c == Head(token)
         IN  (IF c < 128 THEN <<c>>
              ELSE IF c < 2048 THEN <<192 + (c \div 64), 128 + (c % 64)>>
              ELSE <<224 + (c \div 4096), 128 + ((c \div 64) % 64),
                     128 + (c % 64)>>) \o encode(Tail(token))

\* the message with its padding: the bit 1, zeros, and the length in bits
RECURSIVE Zeros(_)
Zeros(n) == IF n = 0 THEN <<>> ELSE <<0>> \o Zeros(n - 1)

Padded(message) ==
    LET n    == Len(message)
        bits == 8 * n
    IN  message \o <<128>> \o Zeros((119 - (n % 64)) % 64)
                \o <<0, 0, 0, 0, 0, (bits \div 65536) % 256,
                     (bits \div 256) % 256, bits % 256>>

\* the words of the padded message from byte at (counted from 0) to byte
\* end: four bytes each, the first the highest
RECURSIVE Words(_, _, _)
Words(padded, at, end) ==
    IF at >= end THEN <<>>
    ELSE <<<<256 * padded[at + 1] + padded[at + 2],
             256 * padded[at + 3] + padded[at + 4]>>>>
         \o Words(padded, at + 4, end)

\* the sixteen words of block b (from 0) of the padded message
Block(padded, b) == Words(padded, 64 * b, 64 * b + 64)

\* the message schedule, grown from the sixteen words to sixty-four
RECURSIVE Schedule(_)
Schedule(ws) ==
    IF Len(ws) = 64 THEN ws
    ELSE LET t == Len(ws) + 1
         IN  Schedule(Append(ws, Add(<<SmallSigma1(ws[t - 2]), ws[t - 7],
                                       SmallSigma0(ws[t - 15]), ws[t - 16]>>)))

\* round t on the working variables a .. h
Round(v, k, wt) ==
    LET t1 == Add(<<v[8], BigSigma1(v[5]), Ch(v[5], v[6], v[7]), k, wt>>)
        t2 == Add(<<BigSigma0(v[1]), Maj(v[1], v[2], v[3])>>)
    IN  <<Add(<<t1, t2>>), v[1], v[2], v[3], Add(<<v[4], t1>>),
          v[5], v[6], v[7]>>

\* the working variables before round 1 and after each of the rounds
RECURSIVE Rounds(_, _)
Rounds(vs, ws) ==
    IF Len(vs) > 64 THEN vs
    ELSE LET t == Len(vs)
         IN  Rounds(Append(vs, Round(vs[t], SHA256_K[t], ws[t])), ws)

\* one block into the hash value
Compress(h, block) ==
    LET v == Rounds(<<h>>, Schedule(block))[65]
    IN  <<Add(<<h[1], v[1]>>), Add(<<h[2], v[2]>>), Add(<<h[3], v[3]>>),
          Add(<<h[4], v[4]>>), Add(<<h[5], v[5]>>), Add(<<h[6], v[6]>>),
          Add(<<h[7], v[7]>>), Add(<<h[8], v[8]>>)>>

RECURSIVE Blocks(_, _, _)
Blocks(h, padded, b) ==
    IF 64 * b >= Len(padded) THEN h
    ELSE Blocks(Compress(h, Block(padded, b)), padded, b + 1)

\* hashlib.sha256(message): the digest as eight words
sha256(message) == Blocks(SHA256_H0, Padded(message), 0)

HexDigits ==
    <<"0", "1", "2", "3", "4", "5", "6", "7", "8", "9",
      "a", "b", "c", "d", "e", "f">>

\* .hexdigest() with capitals
hexdigest_Upper(digest) ==
    [i \in 1..64 |->
        LET half == digest[((i - 1) \div 8) + 1][(((i - 1) \div 4) % 2) + 1]
            upper == <<"0", "1", "2", "3", "4", "5", "6", "7", "8", "9",
                       "A", "B", "C", "D", "E", "F">>
        IN  upper[((half \div 16^(3 - ((i - 1) % 4))) % 16) + 1]]

\* .hexdigest(): the characters of the digest, four bits each
hexdigest(digest) ==
    [i \in 1..64 |->
        LET half == digest[((i - 1) \div 8) + 1][(((i - 1) \div 4) % 2) + 1]
        IN  HexDigits[((half \div 16^(3 - ((i - 1) % 4))) % 16) + 1]]

\* hmac.compare_digest on two strings: equal or not
compare_digest(a, b) == a = b

\* hash_token on the characters of a token
hash_token_str(token) == hexdigest(sha256(encode(token)))

\* verify_edit_token on the characters of a token and a stored digest
verify_edit_token_str(plaintext, stored_hash) ==
    compare_digest(hash_token_str(plaintext), stored_hash)

\* tokens to hash: "abc", "abd", "", a token of 43 characters as
\* token_urlsafe(32) gives them, "cafe" with an accent (a character of two
\* bytes), 56 characters (two blocks), the long token with another last
\* character, and "ABC"
SampleTokens ==
    <<<<97, 98, 99>>,
      <<97, 98, 100>>,
      <<>>,
      <<90, 109, 57, 118, 89, 109, 70, 121, 76, 88, 82, 118,
        97, 50, 86, 117, 76, 84, 65, 120, 77, 106, 77, 48,
        78, 84, 89, 51, 79, 68, 107, 116, 89, 87, 74, 106,
        90, 71, 86, 109, 90, 50, 104>>,
      <<99, 97, 102, 233>>,
      <<97, 98, 99, 100, 98, 99, 100, 101, 99, 100, 101, 102,
        100, 101, 102, 103, 101, 102, 103, 104, 102, 103, 104, 105,
        103, 104, 105, 106, 104, 105, 106, 107, 105, 106, 107, 108,
        106, 107, 108, 109, 107, 108, 109, 110, 108, 109, 110, 111,
        109, 110, 111, 112, 110, 111, 112, 113>>,
      <<90, 109, 57, 118, 89, 109, 70, 121, 76, 88, 82, 118,
        97, 50, 86, 117, 76, 84, 65, 120, 77, 106, 77, 48,
        78, 84, 89, 51, 79, 68, 107, 116, 89, 87, 74, 106,
        90, 71, 86, 109, 90, 50, 65>>,
      <<65, 66, 67>>>>

Tokens == {SampleTokens[i] : i \in 1..MaxTokens}

HashIdle == [pc |-> "idle", stored |-> <<>>, again |-> <<>>, ok |-> FALSE]

\* a token to hash, and a token presented against the stored hash
HashInit ==
    /\ rootKey = RealKey
    /\ L402Idle
    /\ DirIdle
    /\ fin \in [plaintext : Tokens, presented : Tokens]
    /\ fout = HashIdle

\* the hash of the token is stored
HashStore ==
    /\ fout.pc = "idle"
    /\ fout' = [fout EXCEPT !.pc = "stored",
                            !.stored = hash_token_str(fin.plaintext)]
    /\ UNCHANGED <<fin, l402vars, dirvars>>

\* the token is hashed once more
HashAgain ==
    /\ fout.pc = "stored"
    /\ fout' = [fout EXCEPT !.pc = "again",
                            !.again = hash_token_str(fin.plaintext)]
    /\ UNCHANGED <<fin, l402vars, dirvars>>

\* the presented token is verified against the stored hash
HashVerify ==
    /\ fout.pc = "again"
    /\ fout' = [fout EXCEPT !.pc = "verified",
                            !.ok = verify_edit_token_str(fin.presented,
                                                         fout.stored)]
    /\ UNCHANGED <<fin, l402vars, dirvars>>

HashNext == HashStore \/ HashAgain \/ HashVerify

\* hash_token and verify_edit_token as functions
SpecHash == HashInit /\ [][HashNext]_vars

FunSpecInit ==
    /\ rootKey = RealKey
    /\ L402Idle
    /\ DirIdle
    /\ FunInit

FunNext == FunMint \/ FunSend \/ FunVerify

SpecVerify == FunSpecInit /\ [][FunNext]_vars

\* a table that predates the edit tokens may hold a row without a hash
LegacyRow == Service(Url("foo.example", "/"), "a", "a", NullHash)

\* the directory runs with the payment gate in test mode
DirInit ==
    /\ rootKey = TestMode
    /\ L402Idle
    /\ FunIdle
    /\ services \in {[id \in SvcIds |-> NoRow],
                     [id \in SvcIds |-> IF id = 1 THEN LegacyRow ELSE NoRow]}
    /\ ratings = [id \in SvcIds |-> <<>>]
    /\ now = 0
    /\ nextTok = 0
    /\ nextChal = 0
    /\ raters = [r \in RaterIds |-> NoRater]
    /\ creators = [c \in CreatorIds |-> NoCreator]
    /\ outbound = [v \in VerifyIds |-> NoGet]
    /\ resp = NoResponse
    /\ body = NoBody
    /\ rotated = [domains |-> {}, ids |-> {}, wins |-> {}]
    /\ served = 0

\* the tokens a client can present: those given out so far, and a wrong one
ClientTokens == WrongToken..nextTok

Answers(v) ==
    {Failure} \cup {Body(pad, text) : pad \in BOOLEAN,
                       text \in {outbound[v].challenge, NoChallenge}}

\* the listings a request can address: the rows there are or were, and a
\* slug that was never given
Slugs ==
    {id \in SvcIds : services[id].status # "absent"} \cup {MaxServed + 1}

DirNext ==
    \/ \E url \in Urls, tok \in ClientTokens \cup {NoToken} :
          create_service(url, "a", tok)
    \/ \E id \in Slugs, tok \in ClientTokens, name \in {"", "b"} :
          update_service(id, tok, ServiceUpdate(name, ""))
    \/ \E id \in Slugs, tok \in ClientTokens : delete_service(id, tok)
    \/ \E id \in Slugs, score \in {1, 5} : create_rating(id, score)
    \/ \E id \in Slugs : api_recover_generate(id)
    \/ \E v \in VerifyIds, id \in Slugs, addrs \in DnsAnswers :
          api_recover_verify(v, id, addrs)
    \/ \E v \in VerifyIds : \E answer \in Answers(v) :
          api_recover_verify_resume(v, answer)
    \/ \E v \in VerifyIds : api_recover_verify_commit(v)
    \/ \E id \in Slugs : Purge(id)
    \/ Tick

Spec == DirInit /\ [][DirNext]_vars

\* the reads of the directory
ReadNext ==
    \/ list_services
    \/ \E q \in {"", "b"} : search_services(q)
    \/ bulk_export
    \/ \E id \in Slugs : get_service(id)
    \/ \E id \in Slugs : list_ratings(id)
    \/ analytics

\* the directory with its reads
SpecRead == DirInit /\ [][DirNext \/ ReadNext]_vars

\* a directory in which the owner of foo.example has listed two URLs with
\* one token, and the monitor may have retired the second
OwnedRow == Service(Url("foo.example", "/"), "a", "a", hash_token(1))
SharedRow(status) ==
    [Service(Url("FOO.example", "/v2"), "a", "a-1", hash_token(1))
        EXCEPT !.status = status]

RecoverInit ==
    /\ rootKey = TestMode
    /\ L402Idle
    /\ FunIdle
    /\ \E status \in {"unverified", "purged"} :
          services = [id \in SvcIds |->
                        IF id = 1 THEN OwnedRow
                        ELSE IF id = 2 THEN SharedRow(status) ELSE NoRow]
    /\ ratings = [id \in SvcIds |-> <<>>]
    /\ now = 0
    /\ nextTok = 1
    /\ nextChal = 0
    /\ raters = [r \in RaterIds |-> NoRater]
    /\ creators = [c \in CreatorIds |-> NoCreator]
    /\ outbound = [v \in VerifyIds |-> NoGet]
    /\ resp = NoResponse
    /\ body = NoBody
    /\ rotated = [domains |-> {}, ids |-> {}, wins |-> {}]
    /\ served = 0

\* the URLs submitted while a recovery runs: the domain, and a subdomain
RecoverUrls == {Url("foo.example", "/"), Url("api.foo.example", "/")}

RecoverNext ==
    \/ \E url \in RecoverUrls, tok \in ClientTokens \cup {NoToken} :
          create_service(url, "a", tok)
    \/ \E id \in Slugs, tok \in ClientTokens :
          update_service(id, tok, ServiceUpdate("b", ""))
    \/ \E id \in Slugs, tok \in ClientTokens : delete_service(id, tok)
    \/ \E id \in Slugs : create_rating(id, 5)
    \/ \E id \in Slugs : get_service(id)
    \/ \E id \in Slugs : api_recover_generate(id)
    \/ \E v \in VerifyIds, id \in Slugs :
          api_recover_verify(v, id, {"public"})
    \/ \E v \in VerifyIds : \E answer \in Answers(v) :
          api_recover_verify_resume(v, answer)
    \/ \E v \in VerifyIds : api_recover_verify_commit(v)
    \/ \E id \in Slugs : Purge(id)

\* the directory while a domain is recovered
SpecRecover == RecoverInit /\ [][RecoverNext]_vars

\* the verify calls of a race: one more than wait for their GET elsewhere
Racers == 1..(MaxVerify + 1)

\* the owner's listing after recover/generate has answered with challenge 1
ChallengedRow ==
    [OwnedRow EXCEPT !.domain_challenge = 1,
                     !.domain_challenge_expires_at = CHALLENGE_TTL]

RaceInit ==
    /\ rootKey = TestMode
    /\ L402Idle
    /\ FunIdle
    /\ services = [id \in SvcIds |-> IF id = 1 THEN ChallengedRow ELSE NoRow]
    /\ ratings = [id \in SvcIds |-> <<>>]
    /\ now = 0
    /\ nextTok = 1
    /\ nextChal = 1
    /\ raters = [r \in RaterIds |-> NoRater]
    /\ creators = [c \in CreatorIds |-> NoCreator]
    /\ outbound = [v \in Racers |-> NoGet]
    /\ resp = NoResponse
    /\ body = NoBody
    /\ rotated = [domains |-> {}, ids |-> {}, wins |-> {}]
    /\ served = 0

\* recover/verify calls side by side, among issues and edits
RaceNext ==
    \/ \E id \in Slugs : api_recover_generate(id)
    \/ \E v \in Racers, id \in Slugs : api_recover_verify(v, id, {"public"})
    \/ \E v \in Racers : \E answer \in Answers(v) :
          api_recover_verify_resume(v, answer)
    \/ \E v \in Racers : api_recover_verify_commit(v)
    \/ \E id \in Slugs, tok \in ClientTokens :
          update_service(id, tok, ServiceUpdate("b", ""))

\* a listing whose challenge several requests try to verify at once
SpecRace == RaceInit /\ [][RaceNext]_vars

\* the bodies of the PATCH requests: each field given or left out
Patches == {ServiceUpdate(name, description) :
               name \in {"", "b"}, description \in {"", "d"}}

\* two listings of one owner, the first with a recovery challenge
EditInit ==
    /\ rootKey = TestMode
    /\ L402Idle
    /\ FunIdle
    /\ services = [id \in SvcIds |->
                     IF id = 1 THEN ChallengedRow
                     ELSE IF id = 2 THEN SharedRow("unverified") ELSE NoRow]
    /\ ratings = [id \in SvcIds |-> <<>>]
    /\ now = 0
    /\ nextTok = 1
    /\ nextChal = 1
    /\ raters = [r \in RaterIds |-> NoRater]
    /\ creators = [c \in CreatorIds |-> NoCreator]
    /\ outbound = [v \in VerifyIds |-> NoGet]
    /\ resp = NoResponse
    /\ body = NoBody
    /\ rotated = [domains |-> {}, ids |-> {}, wins |-> {}]
    /\ served = 0

EditNext ==
    \/ \E id \in Slugs, tok \in ClientTokens, patch \in Patches :
          update_service(id, tok, patch)
    \/ \E id \in Slugs : get_service(id)
    \/ \E id \in Slugs : api_recover_generate(id)

\* the listings under edit requests, among reads and new challenges
SpecEdit == EditInit /\ [][EditNext]_vars

\* the names of the create requests: two with the same slug, and one that is
\* the first suffixed slug of that base
Names == {"a", "A", "a-1"}

\* a table with one listing named "a", or none
SlugInit ==
    /\ rootKey = TestMode
    /\ L402Idle
    /\ FunIdle
    /\ \E first \in {NoRow, OwnedRow} :
          services = [id \in SvcIds |-> IF id = 1 THEN first ELSE NoRow]
    /\ ratings = [id \in SvcIds |-> <<>>]
    /\ now = 0
    /\ nextTok = 1
    /\ nextChal = 0
    /\ raters = [r \in RaterIds |-> NoRater]
    /\ creators = [c \in CreatorIds |-> NoCreator]
    /\ outbound = [v \in VerifyIds |-> NoGet]
    /\ resp = NoResponse
    /\ body = NoBody
    /\ rotated = [domains |-> {}, ids |-> {}, wins |-> {}]
    /\ served = 0

SlugNext ==
    \/ \E c \in CreatorIds, url \in Urls, name \in Names :
          create_service_query(c, url, name, NoToken)
    \/ \E c \in CreatorIds : create_service_commit(c)

\* create requests that interleave between their queries and their commit
SpecSlug == SlugInit /\ [][SlugNext]_vars

\* a listing that has two ratings already, or none
RatedRow(scores) ==
    [OwnedRow EXCEPT !.avg_rating = Aggregate(scores).avg,
                     !.rating_count = Aggregate(scores).count]

RateInit ==
    /\ rootKey = TestMode
    /\ L402Idle
    /\ FunIdle
    /\ \/ /\ services = [id \in SvcIds |-> IF id = 1 THEN OwnedRow ELSE NoRow]
          /\ ratings = [id \in SvcIds |-> <<>>]
       \/ /\ services = [id \in SvcIds |->
                           IF id = 1 THEN RatedRow(<<2, 2>>) ELSE NoRow]
          /\ ratings = [id \in SvcIds |-> IF id = 1 THEN <<2, 2>> ELSE <<>>]
    /\ now = 0
    /\ nextTok = 1
    /\ nextChal = 0
    /\ raters = [r \in RaterIds |-> NoRater]
    /\ creators = [c \in CreatorIds |-> NoCreator]
    /\ outbound = [v \in VerifyIds |-> NoGet]
    /\ resp = NoResponse
    /\ body = NoBody
    /\ rotated = [domains |-> {}, ids |-> {}, wins |-> {}]
    /\ served = 0

\* the scores of the rating requests
RateScores == {2, 3}

\* rating requests step by step, among reads and a delete, which waits for
\* the write lock
RateNext ==
    \/ \E r \in RaterIds, id \in Slugs, score \in RateScores :
          create_rating_load(r, id, score)
    \/ \E r \in RaterIds : create_rating_flush(r)
    \/ \E r \in RaterIds : create_rating_aggregate(r)
    \/ \E r \in RaterIds : create_rating_commit(r)
    \/ \E id \in Slugs : get_service(id)
    \/ \E id \in Slugs : ~Locked /\ delete_service(id, 1)

\* the ratings of a listing under concurrent rating requests
SpecRate == RateInit /\ [][RateNext]_vars

(***************************************************************************)
(* The payment gate: replay, admission, the ledger.                        *)
(***************************************************************************)
ApiDone(h) ==
    {r \in ReqIds : req[r].flow = "api" /\ req[r].pc = "done"
                    /\ req[r].presented = h}

\* C1: outside test mode, of the API requests that presented the same valid
\* credential exactly one is authorized and every other one gets 401
C1_ReplayAuthorizedOnce ==
    rootKey # TestMode =>
       \A h \in InvoiceHashes :
          ApiDone(h) # {} =>
             /\ Cardinality({r \in ApiDone(h) : req[r].ran}) = 1
             /\ \A r \in ApiDone(h) : ~req[r].ran => req[r].status = 401

\* C2: outside test mode, an API operation runs only for a request whose
\* credential verifies, and no two operations that ran were backed by the
\* same payment_hash
C2_OwnSingleUseInvoice ==
    rootKey # TestMode =>
       /\ \A r \in ReqIds :
             (req[r].flow = "api" /\ req[r].ran) =>
                 (req[r].cred # NoHash /\ req[r].cred = req[r].presented)
       /\ \A a, b \in ReqIds :
             (a # b /\ req[a].ran /\ req[b].ran) => req[a].cred # req[b].cred

AdmitCalls(h) ==
    {r \in ReqIds : req[r].admitted # "none" /\ req[r].ph = h}

\* a handler that was admitted and failed before its commit
RolledBack(r) ==
    req[r].pc = "done" /\ req[r].admitted = "true" /\ ~req[r].ran

\* C3 as stated: of the admit(H) calls made, exactly one returned true
C3_ExactlyOneTrue ==
    \A h \in InvoiceHashes :
       AdmitCalls(h) # {} =>
          Cardinality({r \in AdmitCalls(h) : req[r].admitted = "true"}) = 1

\* C3: of the admit(H) calls whose transaction was not rolled back at most
\* one returned true, and a call returned false only when the row of
\* another caller, who got true, is committed
C3_AdmitOnce ==
    \A h \in InvoiceHashes :
       /\ Cardinality({r \in AdmitCalls(h) :
                         req[r].admitted = "true" /\ ~RolledBack(r)}) <= 1
       /\ \A r \in AdmitCalls(h) :
             req[r].admitted = "false" =>
                /\ h \in ledger
                /\ \E o \in AdmitCalls(h) \ {r} :
                      req[o].admitted = "true" /\ req[o].ran

\* two calls for one hash, the first committed, the second refused
C3_Witness ==
    \E a, b \in ReqIds :
       /\ a # b
       /\ req[a].ph = req[b].ph
       /\ req[a].admitted = "true" /\ req[a].ran
       /\ req[b].admitted = "false"

\* C4: a ledger row for H exists exactly when an operation was authorized
\* with H, and no second operation, API or web, is authorized with it
C4_LedgerIffAuthorized ==
    rootKey # TestMode =>
       \A h \in InvoiceHashes :
          /\ h \in ledger <=> \E r \in ReqIds : req[r].ran /\ req[r].cred = h
          /\ Cardinality({r \in ReqIds : req[r].ran /\ req[r].cred = h}) <= 1

(***************************************************************************)
(* The verifier.                                                           *)
(***************************************************************************)
Original == mint_macaroon_with(fin.mintKey, fin.h)

\* alterations the signature does not cover, or allows
Attenuations == {"location", "junk", "append_hash"}

EffectiveDomain(row) == Lower(row.url.host)

\* the step in which verify call v commits a recovery
RecoverySucceeds(v) ==
    /\ api_recover_verify_commit(v)
    /\ resp'.status = 200

\* C6: when a recover.verify on listing L succeeds with new token T, every
\* non-purged listing of L's effective domain then has the hash of T and is
\* domain_verified, and no token given out before hashes to what it stores
C6_RecoveryRotatesDomain ==
    [][\A v \in VerifyIds :
          RecoverySucceeds(v) =>
             \A i \in SvcIds :
                (/\ services'[i].status \in {"unverified", "live", "dead"}
                 /\ EffectiveDomain(services'[i])
                      = EffectiveDomain(services[outbound[v].id]))
                => /\ services'[i].edit_token_hash = hash_token(resp'.token)
                   /\ services'[i].domain_verified
                   /\ \A old \in WrongToken..nextTok :
                         hash_token(old) # services'[i].edit_token_hash]_vars

\* C7 as stated: once a domain has been recovered, any two of its
\* non-purged listings have the same edit_token_hash
C7_DomainSharesHash ==
    \A a, b \in Visible :
       (/\ EffectiveDomain(services[a]) = EffectiveDomain(services[b])
        /\ EffectiveDomain(services[a]) \in rotated.domains)
       => services[a].edit_token_hash = services[b].edit_token_hash

\* C7: the non-purged listings of a domain that its last recovery rotated,
\* or that were created since with an existing_edit_token verifying against
\* one of them, have the same edit_token_hash; a listing of the domain
\* created since without such a token has another hash
C7_RotatedShareHash ==
    \A a \in Visible \cap rotated.ids : \A b \in Visible :
       EffectiveDomain(services[a]) = EffectiveDomain(services[b]) =>
          (b \in rotated.ids
             <=> services[a].edit_token_hash = services[b].edit_token_hash)

\* after a recovery, a listing was created on the domain with the new token
C7_Witness ==
    \E a, b \in Visible \cap rotated.ids :
       /\ a # b
       /\ EffectiveDomain(services[a]) = EffectiveDomain(services[b])
       /\ services[a].domain_verified
       /\ ~services[b].domain_verified
       /\ services[a].edit_token_hash = services[b].edit_token_hash

\* C8: a PATCH or DELETE of a listing goes through only with a token whose
\* hash is the stored edit_token_hash; with any other token, or with no hash
\* stored, the answer is 403 Invalid edit token and no row changes
C8_EditNeedsToken ==
    [][\A id \in Visible, tok \in WrongToken..nextTok :
          (/\ resp'.status \in {200, 403}
           /\ \/ delete_service(id, tok)
              \/ \E name \in {"", "b"} :
                    update_service(id, tok, ServiceUpdate(name, "")))
          => IF /\ services[id].edit_token_hash # NullHash
                /\ hash_token(tok) = services[id].edit_token_hash
             THEN resp'.status = 200
             ELSE /\ resp' = Response(403, "Invalid edit token", NoToken)
                  /\ services' = services
                  /\ ratings' = ratings]_vars

\* a refused edit of a listing that has ratings
C8_Witness ==
    /\ resp = Response(403, "Invalid edit token", NoToken)
    /\ \E id \in Visible : ratings[id] # <<>>

\* a hostname the reserved-address check must refuse
Reserved(id, addrs) ==
    \/ services[id].url.host = ""
    \/ addrs = {}
    \/ addrs \cap {"loopback", "private", "link-local", "reserved"} # {}

\* C9 as stated: recover.verify of a listing whose hostname is empty,
\* unresolvable or resolves to a reserved address answers 400 with the
\* private-address detail and makes no outbound request
C9_ReservedRefused ==
    [][\A v \in VerifyIds, id \in Visible, addrs \in DnsAnswers :
          (Reserved(id, addrs) /\ api_recover_verify(v, id, addrs))
          => /\ resp' = Response(400, PrivateDetail, NoToken)
             /\ outbound' = outbound]_vars

\* C9: recover.verify of such a listing makes no outbound request and
\* answers 400, with the private-address detail when the listing has an
\* active challenge (without one the detail is that of the missing challenge)
C9_ReservedNoOutbound ==
    [][\A v \in VerifyIds, id \in Visible, addrs \in DnsAnswers :
          (Reserved(id, addrs) /\ api_recover_verify(v, id, addrs))
          => /\ resp'.status = 400
             /\ outbound' = outbound
             /\ ActiveChallenge(id) => resp'.detail = PrivateDetail
             /\ ~ActiveChallenge(id) => resp'.detail =
                   "No active challenge or challenge expired"]_vars

\* a listing with an active challenge was refused for its address
C9_Witness ==
    /\ resp = Response(400, PrivateDetail, NoToken)
    /\ \A v \in VerifyIds : outbound[v].pc = "idle"
    /\ \E id \in Visible :
          ActiveChallenge(id) /\ services[id].url.host # ""

\* a step of recover.verify
VerifyStep ==
    \/ \E v \in VerifyIds, id \in Visible, addrs \in DnsAnswers :
          api_recover_verify(v, id, addrs)
    \/ \E v \in VerifyIds :
          outbound[v].pc \in {"get", "commit"} /\ outbound'[v].pc = "idle"

\* C10: a recover.verify that ends in 400, 403 or 502 leaves every row as
\* it was: the hashes, domain_verified, the challenges and their expiry
C10_FailedVerifyChangesNothing ==
    [][(VerifyStep /\ resp'.status \in {400, 403, 502})
          => services' = services]_vars

\* a mismatch, after which the challenge and the old hash are still there
C10_Witness ==
    /\ resp = Response(403, "Challenge code does not match", NoToken)
    /\ \E id \in Visible :
          /\ ActiveChallenge(id)
          /\ services[id].edit_token_hash # NullHash
          /\ ~services[id].domain_verified

\* C11: recover.verify of a listing whose challenge is absent, or whose
\* expiry is not strictly after now, answers 400 No active challenge or
\* challenge expired, sends no GET, rotates no token and changes no row,
\* whatever the resolver or the well-known URL would answer
C11_NoChallengeNoVerify ==
    [][\A v \in VerifyIds, id \in Visible, addrs \in DnsAnswers :
          (/\ \/ services[id].domain_challenge = NoChallenge
              \/ services[id].domain_challenge_expires_at <= now
           /\ api_recover_verify(v, id, addrs))
          => /\ resp' = Response(400,
                    "No active challenge or challenge expired", NoToken)
             /\ outbound' = outbound
             /\ services' = services
             /\ nextTok' = nextTok]_vars

\* a verify was refused at the very minute its challenge expired
C11_Witness ==
    /\ resp = Response(400, "No active challenge or challenge expired",
                       NoToken)
    /\ \A v \in VerifyIds : outbound[v].pc = "idle"
    /\ \E id \in Visible :
          /\ services[id].domain_challenge # NoChallenge
          /\ services[id].domain_challenge_expires_at = now

(***************************************************************************)
(* The guard: test mode, the challenge.                                    *)
(***************************************************************************)
\* C14: with AUTH_ROOT_KEY = "test-mode" every request to a priced API
\* operation is authorized and runs, whatever its Authorization header, no
\* invoice is created and no ledger row written; with any other key an
\* operation runs only for a credential that verifies
C14_TestModeBypass ==
    IF rootKey = "test-mode"
    THEN /\ \A r \in ReqIds :
               (req[r].flow = "api" /\ req[r].pc = "done") =>
                   req[r].ran /\ req[r].status = 200
         /\ invoices = {}
         /\ ledger = {}
         /\ \A r \in ReqIds : pending[r] = {}
    ELSE \A r \in ReqIds :
            (req[r].flow = "api" /\ req[r].ran) =>
                /\ req[r].cred # NoHash
                /\ req[r].cred \in InvoiceHashes \cap settled

\* in test mode two requests ran without a credential and nothing was
\* invoiced or consumed
C14_Witness ==
    /\ rootKey = "test-mode"
    /\ \E a, b \in ReqIds :
          /\ a # b
          /\ req[a].flow = "api" /\ req[a].ran /\ req[a].cred = NoHash
          /\ req[b].flow = "api" /\ req[b].ran /\ req[b].cred = NoHash
    /\ invoices = {} /\ ledger = {}

\* C15: outside test mode, a request to a priced operation without an
\* Authorization header, when the backend creates the invoice, adds exactly
\* one invoice, the macaroon of the challenge carries the payment_hash of
\* that invoice, the answer is 402 Payment Required and the operation does
\* not run
C15_ChallengeOnNoAuth ==
    [][\A r \in ReqIds, op \in ApiOps :
          (rootKey # "test-mode" /\ ApiRequest(r, op, NoAuth, TRUE)) =>
             /\ invoices \subseteq invoices'
             /\ Cardinality(invoices' \ invoices) = 1
             /\ \A i \in invoices' \ invoices :
                   /\ i.minted
                   /\ req'[r].chal = i.hash
                   /\ i.hash \notin InvoiceHashes
             /\ req'[r].status = 402
             /\ req'[r].detail = "Payment Required"
             /\ ~req'[r].ran
             /\ ledger' = ledger]_vars

\* a request was challenged with the hash of the invoice made for it
C15_Witness ==
    /\ rootKey # "test-mode"
    /\ \E r \in ReqIds :
          /\ req[r].flow = "api"
          /\ req[r].status = 402 /\ req[r].detail = "Payment Required"
          /\ ~req[r].ran
          /\ \E i \in invoices : i.minted /\ i.hash = req[r].chal

(***************************************************************************)
(* The boundary: the gate of each route, the Origin check.                 *)
(***************************************************************************)
\* the step makes no invoice and answers no 402
NoChallenge402 == invoices' = invoices /\ req'[Worker].status # 402

\* the step answers 402 with one new invoice, of this amount
Challenge402(amount) ==
    /\ req'[Worker].status = 402
    /\ \E i \in invoices' \ invoices :
          invoices' = invoices \cup {i} /\ i.amount = amount

\* the gate the table of the routes gives an operation: its price, 0: free
GateTable(op) ==
    CASE op = "create_service" -> AUTH_SUBMIT_PRICE_SATS
      [] op = "create_rating"  -> AUTH_REVIEW_PRICE_SATS
      [] op = "bulk_export"    -> AUTH_BULK_PRICE_SATS
      [] op \in {"analytics", "reputation"} -> AUTH_PRICE_SATS
      [] OTHER -> 0

\* C16: a challenge invoice is created only by create listing, at
\* AUTH_SUBMIT_PRICE_SATS, create rating, at AUTH_REVIEW_PRICE_SATS, bulk
\* export, at AUTH_BULK_PRICE_SATS, and analytics and reputation, at
\* AUTH_PRICE_SATS; list, get, search, list ratings, recover generate and
\* verify and payment status answer no 402 and create no invoice, with a
\* real key as in test mode
C16_GateTable ==
    [][/\ \/ IF GateTable(req[Worker].op) = 0
             THEN NoChallenge402
             ELSE NoChallenge402 \/ Challenge402(GateTable(req[Worker].op))
          \/ ~\E auth \in EdgeAuths, backend_ok \in BOOLEAN :
                 Route(Worker, auth, backend_ok)
       /\ \/ NoChallenge402
          \/ ~\E op \in EdgeOps, origin \in Origins :
                 OriginCheck(Worker, op, origin)
       /\ \/ NoChallenge402
          \/ ~\E h \in WebHashes, backend \in {"ok", "non200", "transport"} :
                 payment_status(Worker, h, backend)]_vars

\* with a real key, after a rating and a reputation lookup were challenged
\* at their prices, a free route ran
C16_Witness ==
    /\ rootKey # "test-mode"
    /\ \E i, j \in invoices :
          /\ i.amount = AUTH_REVIEW_PRICE_SATS
          /\ j.amount = AUTH_PRICE_SATS
    /\ req[Worker].op \in FreeOps
    /\ req[Worker].ran

\* urlparse(origin).hostname, "" for none
HostOf(origin) == IF origin.scheme = "" THEN "" ELSE origin.host

\* the request is answered 403: it is over, no handler ran, nothing changed
Blocked403 ==
    /\ req'[Worker].status = 403
    /\ req'[Worker].detail = "Cross-origin request blocked"
    /\ req'[Worker].pc = "done"
    /\ ~req'[Worker].ran
    /\ invoices' = invoices
    /\ ledger' = ledger
    /\ pending' = pending

\* the request passed the check and goes to the route of its operation
HandedOn(op) ==
    /\ req'[Worker].status = 0
    /\ req'[Worker].pc = "idle"
    /\ req'[Worker].op = op

Written == {id \in SvcIds : services'[id] # services[id]}

\* the response says token_reused = b
SaysReused(b) == <<"token_reused", JBool(b)>> \in body'.fields

\* the listing takes the hash the token verified against, no token is drawn
Reuses(tok) ==
    /\ \A id \in Written : services'[id].edit_token_hash = hash_token(tok)
    /\ SaysReused(TRUE)
    /\ resp'.token = tok
    /\ nextTok' = nextTok

\* a fresh token is drawn, the listing takes its hash
MintsFresh ==
    /\ nextTok' = nextTok + 1
    /\ resp'.token = nextTok'
    /\ \A id \in Written :
          services'[id].edit_token_hash = hash_token(nextTok')
    /\ SaysReused(FALSE)

\* the stored hashes of the listings whose effective domain is that of url
DomainHashes(url) ==
    {services[i].edit_token_hash :
        i \in {j \in Rows : EffectiveDomain(services[j]) = Lower(url.host)}}
    \ {NullHash}

\* C18 as stated: a creation whose existing_edit_token verifies against the
\* stored hash of some listing with the same effective domain as the new URL
\* reuses that hash and reports token_reused = true; any other creation mints
\* a fresh token and stores its hash
C18_ReuseRule ==
    [][\A url \in Urls, tok \in (WrongToken..nextTok) \cup {NoToken} :
          create_service(url, "a", tok)
          => IF tok # NoToken /\ hash_token(tok) \in DomainHashes(url)
             THEN Reuses(tok)
             ELSE MintsFresh]_vars

\* C18, amended: the reuse needs a URL that has a hostname; a creation whose
\* existing_edit_token verifies against the stored hash of some listing with
\* the same non-empty effective domain reuses that hash and reports
\* token_reused = true; any other creation mints a fresh token and stores
\* its hash
C18_ReuseRuleWithHost ==
    [][\A url \in Urls, tok \in (WrongToken..nextTok) \cup {NoToken} :
          create_service(url, "a", tok)
          => IF /\ tok # NoToken
                /\ Lower(url.host) # ""
                /\ hash_token(tok) \in DomainHashes(url)
             THEN Reuses(tok)
             ELSE MintsFresh]_vars

\* a listing was created with the token of another listing of its domain
C18_Witness ==
    /\ resp.status = 201
    /\ <<"token_reused", JBool(TRUE)>> \in body.fields
    /\ \E i, j \in Visible :
          /\ i # j
          /\ services[i].url # services[j].url
          /\ EffectiveDomain(services[i]) = EffectiveDomain(services[j])
          /\ services[i].edit_token_hash = hash_token(resp.token)
          /\ services[j].edit_token_hash = hash_token(resp.token)

\* C19: a creation for a URL that a purged listing has overwrites that row in
\* place: the rows do not grow in number, the row keeps its id and its
\* ratings, it is visible again, and its hash is the one chosen for the new
\* submission
C19_PurgedOverwritten ==
    [][\A url \in Urls, tok \in (WrongToken..nextTok) \cup {NoToken} :
          (create_service(url, "a", tok) /\ find_purged_service(url) # {})
          => \E id \in find_purged_service(url) :
                /\ Written = {id}
                /\ Cardinality({i \in SvcIds : services'[i].status \notin
                                  {"absent", "deleted"}}) = Cardinality(Rows)
                /\ services'[id].status # "purged"
                /\ services'[id].url = url
                /\ services'[id].edit_token_hash = hash_token(resp'.token)
                /\ <<"id", JNum(id)>> \in body'.fields
                /\ ratings'[id] = ratings[id]]_vars

\* a purged listing that had a rating was overwritten by a new submission
C19_Witness ==
    /\ resp.status = 201
    /\ Cardinality(Rows) = 1
    /\ \E id \in Visible :
          /\ ratings[id] # <<>>
          /\ <<"id", JNum(id)>> \in body.fields
          /\ services[id].edit_token_hash = hash_token(resp.token)


(***************************************************************************)
(* Purged listings.                                                        *)
(***************************************************************************)
Purged == {id \in Rows : services[id].status = "purged"}

\* the objects of a body: the object it is, the objects it lists
Objects(b) == {b.fields} \cup b.items

\* a step that answers 200 or 201 shows no listing that is purged then
ReadsOmitPurged ==
    (resp'.status \in {200, 201} /\ body' # body)
    => /\ \A p \in SvcIds, o \in Objects(body') :
             services'[p].status = "purged" => <<"id", JNum(p)>> \notin o
       /\ \A n \in 0..(MaxServed + 2) :
             <<"total", JNum(n)>> \in body'.fields
             => n <= Cardinality({i \in SvcIds : services'[i].status \notin
                                    {"absent", "deleted", "purged"}})
       /\ \A n \in 0..(MaxServed + 2) :
             <<"total_services", JNum(n)>> \in body'.fields
             => n = Cardinality({i \in SvcIds : services'[i].status \notin
                                    {"absent", "deleted", "purged"}})

\* the handlers that take a slug answer 404 for that of a purged listing
PurgedNotFound ==
    \A p \in Purged :
       (\/ get_service(p)
        \/ list_ratings(p)
        \/ \E tok \in ClientTokens, name \in {"", "b"} :
              update_service(p, tok, ServiceUpdate(name, ""))
        \/ \E tok \in ClientTokens : delete_service(p, tok)
        \/ \E score \in {1, 5} : create_rating(p, score)
        \/ api_recover_generate(p)
        \/ \E v \in VerifyIds, addrs \in DnsAnswers :
              api_recover_verify(v, p, addrs))
       => /\ resp' = Response(404, "Service not found", NoToken)
          /\ services' = services
          /\ ratings' = ratings

\* a creation gives the slug that is unique among the listings that are not
\* purged, and a purged listing at another URL is left as it is
CreationIgnoresPurged ==
    \A url \in Urls, tok \in (WrongToken..nextTok) \cup {NoToken} :
       create_service(url, "a", tok)
       => /\ \A id \in Written :
                services'[id].slug = unique_slug_SkipPurged("a")
          /\ \A p \in Purged \ find_purged_service(url) :
                services'[p] = services[p]

\* C20: a purged listing is invisible to every operation: list, search, bulk
\* and analytics omit it, the handlers that take its slug answer 404, and it
\* takes no part in the slug-uniqueness check of a creation; only a creation
\* for its exact URL finds it
C20_PurgedInvisible ==
    [][ReadsOmitPurged /\ PurgedNotFound /\ CreationIgnoresPurged]_vars

\* what the reads and the handlers that take a slug do hold
C20_ReadsAndSlugHandlers ==
    [][ReadsOmitPurged /\ PurgedNotFound]_vars

\* a listing named as a purged listing of another URL is, was given a
\* suffixed slug
C20_SuffixedSlug ==
    \E p \in Purged, id \in Visible :
       /\ services[p].url # services[id].url
       /\ services[p].slug = "a"
       /\ services[id].slug = "a-1"
       /\ \A i \in Visible : services[i].slug # "a"


(***************************************************************************)
(* What the responses show of the edit token, its hash and the challenge.  *)
(***************************************************************************)
\* the keys and the values of a body
Pairs(b)  == UNION Objects(b)
Keys(b)   == {f[1] : f \in Pairs(b)}
Values(b) == {f[2] : f \in Pairs(b)}

Successful == resp.status \in {200, 201}

\* the hashes and the challenges the table holds, as JSON strings
StoredHashes ==
    {JDigest(services[i].edit_token_hash) :
        i \in {j \in Rows : services[j].edit_token_hash # NullHash}}
StoredChallenges ==
    {JHex(services[i].domain_challenge) :
        i \in {j \in Rows : services[j].domain_challenge # NoChallenge}}

NoSecretKey ==
    Keys(body) \cap {"edit_token_hash", "domain_challenge"} = {}

\* C12 as stated: no successful response has edit_token_hash or
\* domain_challenge as a key, or the value of either column as the value of
\* any key
C12_NoHashNoChallenge ==
    Successful
    => /\ NoSecretKey
       /\ Values(body) \cap (StoredHashes \cup StoredChallenges) = {}

\* C12, amended: no successful response has edit_token_hash or
\* domain_challenge as a key and none carries a digest; a challenge is
\* carried only by the answer of recover/generate for a listing, under the
\* key "challenge", and it is the challenge that listing stores
C12_HashNeverChallengeOnIssue ==
    Successful
    => /\ NoSecretKey
       /\ \A f \in Pairs(body) : f[2].t # "digest"
       /\ \A f \in Pairs(body) :
             f[2].t = "hex"
             => /\ f[1] = "challenge"
                /\ \E i \in Rows :
                      /\ body = Json(ChallengeOut(services[i].domain_challenge,
                                                  services[i].url), {})
                      /\ f[2] = JHex(services[i].domain_challenge)

\* a list that shows a listing which stores a hash and a challenge
C12_Witness ==
    /\ resp.status = 200
    /\ \E i \in Visible :
          /\ services[i].edit_token_hash # NullHash
          /\ services[i].domain_challenge # NoChallenge
          /\ ServiceOut(i, services[i]) \in body.items

\* the plaintext tokens a body carries
TokensIn(b) == {f \in Pairs(b) : f[2].t = "token"}

\* the table holds the hash of a token that was drawn, never a token
HoldsOnlyHashes ==
    \A i \in Rows :
       \/ services[i].edit_token_hash = NullHash
       \/ /\ \E k \in 1..nextTok : services[i].edit_token_hash = hash_token(k)
          /\ services[i].edit_token_hash \notin 1..nextTok

\* the one token of the response, under edit_token
OneToken(token) ==
    /\ TokensIn(body') = {<<"edit_token", JToken(token)>>}
    /\ resp'.token = token

\* C13: a response carries a plaintext edit token only if it is that of a
\* successful creation or of a successful recover/verify, and then it carries
\* one; the table holds only hashes of tokens
C13_TokenOnlyOnIssue ==
    [][/\ HoldsOnlyHashes'
       /\ \/ (TokensIn(body') = {} /\ resp'.token = NoToken)
          \/ (body' = body /\ resp' = resp)
          \/ \E url \in Urls, tok \in (WrongToken..nextTok) \cup {NoToken} :
                /\ create_service(url, "a", tok)
                /\ resp'.status = 201
                /\ OneToken(resp'.token)
                /\ \A id \in Written :
                      services'[id].edit_token_hash = hash_token(resp'.token)
          \/ \E v \in VerifyIds :
                /\ api_recover_verify_commit(v)
                /\ resp'.status = 200
                /\ OneToken(nextTok + 1)
       /\ (\E url \in Urls, tok \in (WrongToken..nextTok) \cup {NoToken} :
              create_service(url, "a", tok)) => TokensIn(body') # {}
       /\ (resp'.status = 200 /\ \E v \in VerifyIds :
              api_recover_verify_commit(v)) => TokensIn(body') # {}
      ]_vars

\* a PATCH with the listing's token answered with the listing, not the token
C13_Witness ==
    /\ resp = Response(200, "", NoToken)
    /\ TokensIn(body) = {}
    /\ \E i \in Visible :
          /\ body = Json(ServiceOut(i, services[i]), {})
          /\ services[i].name = "b"
          /\ services[i].edit_token_hash = hash_token(nextTok)


(***************************************************************************)
(* The guard and the credentials that do not verify.                       *)
(***************************************************************************)
\* the headers that start with "L402 " or "LSAT "
Presented == {auth \in ClientAuths : auth.scheme \in {"L402", "LSAT"}}

\* the request is refused with 401 and this detail; nothing runs, nothing is
\* invoiced
Rejected(detail) ==
    /\ req'[Worker].status = 401
    /\ req'[Worker].detail = detail
    /\ ~req'[Worker].ran
    /\ invoices' = invoices

\* C23: outside test mode a request whose header starts with "L402 " or
\* "LSAT " and carries no valid credential is answered 401: Invalid L402
\* token format without a colon, Invalid L402 credentials for an undecodable
\* macaroon, a preimage that is not hex, a wrong preimage or a bad signature
C23_InvalidRejected ==
    [][\A op \in GateApiOps, auth \in Presented :
          (/\ rootKey # "test-mode"
           /\ ValidFor(auth) = NoHash
           /\ ApiRequest(Worker, op, auth, TRUE))
          => IF ~auth.colon THEN Rejected("Invalid L402 token format")
             ELSE Rejected("Invalid L402 credentials")]_vars

\* what holds of them: never authorized, never challenged; 401 with the
\* detail of the claim unless the macaroon decodes and the preimage is not
\* hex, which ends in a 500
C23_InvalidNeverAuthorized ==
    [][\A op \in GateApiOps, auth \in Presented :
          (/\ rootKey # "test-mode"
           /\ ValidFor(auth) = NoHash
           /\ ApiRequest(Worker, op, auth, TRUE))
          => IF ~auth.colon THEN Rejected("Invalid L402 token format")
             ELSE IF auth.mac.wf /\ ~auth.pre.hex
             THEN /\ req'[Worker].status = 500
                  /\ ~req'[Worker].ran
                  /\ invoices' = invoices
             ELSE Rejected("Invalid L402 credentials")]_vars

\* a macaroon the server minted, sent with a preimage that is not hex, ended
\* in a server error
C23_NotHexServerError ==
    /\ rootKey # "test-mode"
    /\ req[Worker].flow = "api"
    /\ req[Worker].status = 500
    /\ req[Worker].detail = "Internal Server Error"
    /\ \E i \in invoices : i.minted

\* C25: when create_invoice fails while the guard builds a challenge, the
\* request ends with a 5xx: no 402, the body does not run, no invoice, no
\* row, nothing else changes
C25_InvoiceFailureIs5xx ==
    [][\A op \in GateApiOps, auth \in ClientAuths \ Presented :
          (rootKey # "test-mode" /\ ApiRequest(Worker, op, auth, FALSE))
          => /\ req'[Worker].status >= 500
             /\ req'[Worker].status < 600
             /\ ~req'[Worker].ran
             /\ req'[Worker].chal = NoHash
             /\ req'[Worker].pc = "done"
             /\ UNCHANGED <<invoices, settled, ledger, pending, dirvars>>]_vars

\* a request was answered 500 while nothing was invoiced yet
C25_Witness ==
    /\ rootKey # "test-mode"
    /\ req[Worker].flow = "api"
    /\ req[Worker].status = 500
    /\ invoices = {}

\* C27: a request with "LSAT <token>" does what the request with
\* "L402 <token>" does: each step of the one is a step of the other, with the
\* same answer and the same state after it
C27_LsatAsL402 ==
    [][\A op \in GateApiOps, auth \in Presented, backend_ok \in BOOLEAN :
          ApiRequest(Worker, op, [auth EXCEPT !.scheme = "L402"], backend_ok)
          <=> ApiRequest(Worker, op, [auth EXCEPT !.scheme = "LSAT"],
                         backend_ok)]_vars

\* an operation ran for a paid credential, which either prefix presents
C27_Witness ==
    /\ rootKey # "test-mode"
    /\ req[Worker].ran
    /\ req[Worker].cred \in settled
    /\ \E i \in invoices :
          /\ i.hash = req[Worker].cred
          /\ require_l402(Credential("LSAT", mint_macaroon(i.hash),
                                     HexOf(i.pre))).out = "return"
          /\ require_l402(Credential("L402", mint_macaroon(i.hash),
                                     HexOf(i.pre))).out = "return"

(***************************************************************************)
(* The payment check of the HTML flows.                                    *)
(***************************************************************************)
\* C24: check_payment_status is fail-closed: a web submission or rating that
\* comes back with a payment_hash goes on only when the backend reports the
\* invoice paid; on a non-200 answer and on a transport failure the check
\* answers false without raising, and the request is answered 402 Payment
\* not verified
C24_FailClosed ==
    [][\A r \in ReqIds, op \in WebOps, h \in InvoiceHashes,
         backend \in {"ok", "non200", "transport"} :
          (/\ rootKey # "test-mode"
           /\ FirstIdle(r)
           /\ WebGate(r, op, h, backend))
          => /\ check_payment_status(h, backend) \in {"true", "false"}
             /\ IF backend = "ok" /\ h \in settled
                THEN req'[r].pc = "admit"
                ELSE /\ req'[r].pc = "done"
                     /\ req'[r].status = 402
                     /\ req'[r].detail = "Payment not verified"]_vars

\* what holds: the request goes on only for an invoice the backend reports
\* paid; after a transport failure it does not go on either
C24_UnverifiedNeverProceeds ==
    [][\A r \in ReqIds, op \in WebOps, h \in InvoiceHashes,
         backend \in {"ok", "non200", "transport"} :
          (/\ rootKey # "test-mode"
           /\ FirstIdle(r)
           /\ WebGate(r, op, h, backend))
          => IF backend = "ok" /\ h \in settled
             THEN req'[r].pc = "admit"
             ELSE /\ req'[r].pc = "done"
                  /\ req'[r].status \in {402, 500}
                  /\ ~req'[r].ran]_vars


(***************************************************************************)
(* Startup.                                                                *)
(***************************************************************************)
\* C28: with AUTH_ROOT_KEY empty or unset the application does not start:
\* the database is never initialised, no request is served, and the guard
\* decides nothing under the empty key
C28_NoStartWithoutKey ==
    rootKey = Unset
    => /\ phase \in {"boot", "failed"}
       /\ \A r \in ReqIds : req[r] = IdleReq
       /\ invoices = {}

\* the startup has failed on the unset key
C28_Witness ==
    /\ rootKey = Unset
    /\ phase = "failed"

(***************************************************************************)
(* Recovery and deletion among concurrent requests.                        *)
(***************************************************************************)
\* the non-purged listings of the domain of row id, once the step is taken
SameDomainAfter(id) ==
    {i \in SvcIds :
       /\ services'[i].status \in {"unverified", "live", "dead"}
       /\ EffectiveDomain(services'[i]) = EffectiveDomain(services[id])}

\* the hashes the rotation of verify call v replaces
Replaced(v) == {services[j].edit_token_hash : j \in Dirty(v)}

\* C21: once a successful recover.verify has committed, no non-purged listing
\* of the domain carries a hash the rotation replaced beside listings that
\* carry the new one, and the recovering listing holds no challenge
C21_RotationAtomic ==
    [][\A v \in VerifyIds :
          RecoverySucceeds(v) =>
             /\ services'[outbound[v].id].domain_challenge = NoChallenge
             /\ \A i \in SameDomainAfter(outbound[v].id) :
                   services'[i].edit_token_hash \notin Replaced(v)]_vars

\* C30: a successful recover.verify on L changes edit_token_hash and
\* domain_verified of no purged listing and of no listing on another host:
\* every row it changes is a non-purged listing of L's effective domain
C30_OnlyVisibleSameDomain ==
    [][\A v \in VerifyIds :
          RecoverySucceeds(v) =>
             \A i \in SvcIds :
                (\/ services'[i].edit_token_hash # services[i].edit_token_hash
                 \/ services'[i].domain_verified # services[i].domain_verified)
                => /\ i \in Visible
                   /\ EffectiveDomain(services[i])
                        = EffectiveDomain(services[outbound[v].id])]_vars

\* a request that addresses listing id by its slug
OnSlug(id) ==
    \/ get_service(id)
    \/ \E tok \in WrongToken..nextTok :
          update_service(id, tok, ServiceUpdate("b", ""))
    \/ \E tok \in WrongToken..nextTok : delete_service(id, tok)
    \/ api_recover_generate(id)
    \/ \E v \in VerifyIds : api_recover_verify(v, id, {"public"})

\* the step in which listing id is deleted with token tok
Deletes(id, tok) ==
    /\ id \in Visible
    /\ delete_service(id, tok)
    /\ resp'.status = 200

RoundedMean(avg, total, count) ==
    /\ 2 * (10 * total - avg * count) <= count
    /\ 2 * (avg * count - 10 * total) <= count

LowerHex ==
    {"0", "1", "2", "3", "4", "5", "6", "7", "8", "9",
     "a", "b", "c", "d", "e", "f"}

\* C26: the hash of a token is a string of 64 characters, each a digit or a
\* letter a to f, and the same whenever the token is hashed; a presented
\* token verifies against it exactly when it is the token that was hashed
C26_HashAndVerify ==
    /\ fout.pc # "idle" =>
          /\ Len(fout.stored) = 64
          /\ \A i \in 1..64 : fout.stored[i] \in LowerHex
    /\ fout.pc \in {"again", "verified"} => fout.again = fout.stored
    /\ fout.pc = "verified" => (fout.ok <=> fin.presented = fin.plaintext)

\* "abd" was refused against the hash of "abc", which is the digest of the
\* standard's example
C26_Witness ==
    /\ fout.pc = "verified"
    /\ ~fout.ok
    /\ fin = [plaintext |-> <<97, 98, 99>>, presented |-> <<97, 98, 100>>]
    /\ fout.stored =
         <<"b", "a", "7", "8", "1", "6", "b", "f", "8", "f", "0", "1", "c", "f", "e", "a",
           "4", "1", "4", "1", "4", "0", "d", "e", "5", "d", "a", "e", "2", "2", "2", "3",
           "b", "0", "0", "3", "6", "1", "a", "3", "9", "6", "1", "7", "7", "a", "9", "c",
           "b", "4", "1", "0", "f", "f", "6", "1", "f", "2", "0", "0", "1", "5", "a", "d">>

(***************************************************************************)
(* The recovery challenge.                                                 *)
(***************************************************************************)
\* the step in which a challenge is issued for listing id
Issues(id) ==
    /\ id \in Visible
    /\ api_recover_generate(id)

\* the challenges that were given out and are still stored or compared
KnownChallenges ==
    {services[i].domain_challenge : i \in SvcIds}
    \cup {outbound[v].challenge : v \in VerifyIds}

\* a step of recover/verify before its commit
BeforeCommit ==
    \E v \in VerifyIds :
       \/ \E id \in Slugs, addrs \in DnsAnswers :
             api_recover_verify(v, id, addrs)
       \/ \E answer \in Answers(v) : api_recover_verify_resume(v, answer)

\* the edit tokens work on the listings as they did before the step
TokensWorkAsBefore ==
    \A j \in SvcIds :
       /\ services'[j].edit_token_hash = services[j].edit_token_hash
       /\ services'[j].domain_verified = services[j].domain_verified
       /\ \A tok \in ClientTokens : EditAllowed(j, tok)' <=> EditAllowed(j, tok)

\* C31: recover.issue stores a challenge no listing and no verify call holds,
\* with an expiry 30 minutes ahead, on the addressed listing and changes no
\* other column, no other listing and no rating; the steps of a verify
\* before its commit change no edit_token_hash and no domain_verified, so
\* every token edits what it edited before
C31_IssueLeavesToken ==
    [][/\ \A id \in SvcIds :
             Issues(id) =>
                /\ services'[id].domain_challenge
                      \notin KnownChallenges \cup {NoChallenge}
                /\ <<"challenge", JHex(services'[id].domain_challenge)>>
                      \in body'.fields
                /\ services'[id] =
                      [services[id] EXCEPT
                          !.domain_challenge = services'[id].domain_challenge,
                          !.domain_challenge_expires_at = now + 30]
                /\ \A j \in SvcIds \ {id} : services'[j] = services[j]
                /\ ratings' = ratings
                /\ TokensWorkAsBefore
       /\ BeforeCommit => TokensWorkAsBefore]_vars

\* a verify has found its challenge served and has not committed; the old
\* token has just renamed the listing, which holds the old hash
C31_Witness ==
    /\ \E v \in VerifyIds : outbound[v].pc = "commit" /\ outbound[v].id = 1
    /\ services[1].domain_challenge = outbound[1].challenge
    /\ services[1].domain_challenge_expires_at = 30
    /\ services[1].edit_token_hash = hash_token(1)
    /\ services[1].name = "b"
    /\ resp = Response(200, "", NoToken)

\* the two columns of the challenge are both set or both NULL
BothOrNeither ==
    \A id \in SvcIds :
       services[id].domain_challenge # NoChallenge
          <=> services[id].domain_challenge_expires_at # 0

\* the step in which a verify on listing id finds an active challenge: it
\* goes on to the address check, and to its GET when the address is public
FoundActive(id) ==
    /\ id \in Visible
    /\ served' # served
    /\ resp'.detail # "No active challenge or challenge expired"
    /\ \E v \in VerifyIds, addrs \in DnsAnswers :
          api_recover_verify(v, id, addrs)

\* C32: in every state a listing has domain_challenge exactly when it has
\* domain_challenge_expires_at, and a verify takes the challenge of its
\* listing as active only when both are there and the expiry is after now
C32_ChallengeWithExpiry ==
    /\ []BothOrNeither
    /\ [][\A id \in SvcIds :
             FoundActive(id) =>
                /\ services[id].domain_challenge # NoChallenge
                /\ services[id].domain_challenge_expires_at # 0
                /\ services[id].domain_challenge_expires_at > now]_vars

\* half an hour after the issue the listing holds both columns, the expiry is
\* now, and a verify was told that there is no active challenge
C32_Witness ==
    /\ \E id \in Visible :
          /\ services[id].domain_challenge # NoChallenge
          /\ services[id].domain_challenge_expires_at = now
    /\ resp = Response(400, "No active challenge or challenge expired", NoToken)

(***************************************************************************)
(* One challenge, several verify calls.                                    *)
(***************************************************************************)
\* the step in which a verify on listing id is refused for want of a
\* challenge
RefusedNoChallenge(id) ==
    /\ resp' = Response(400, "No active challenge or challenge expired",
                        NoToken)
    /\ outbound' = outbound
    /\ services' = services

\* C33: no challenge makes two recover.verify calls succeed, so that no token
\* answered with 200 is replaced by a second one for the same challenge; and
\* a verify on a listing whose challenge a verify has cleared is refused
\* with "No active challenge"
C33_OneVerifyPerChallenge ==
    /\ [](\A a, b \in rotated.wins : a.challenge = b.challenge => a = b)
    /\ [][\A id \in SvcIds :
             (/\ id \in Visible
              /\ services[id].domain_challenge = NoChallenge
              /\ served' # served
              /\ \E v \in DOMAIN outbound :
                    api_recover_verify(v, id, {"public"}))
             => RefusedNoChallenge(id)]_vars

\* C34: an issue leaves the challenge it replaces on no listing, and a
\* recover.verify succeeds only with the challenge issued last for its
\* listing: when it commits, the listing holds the challenge it compared, or
\* none, and never one that was issued later
C34_LatestChallengeOnly ==
    [][/\ \A id \in SvcIds :
             (Issues(id) /\ services[id].domain_challenge # NoChallenge) =>
                \A j \in SvcIds :
                   services'[j].domain_challenge
                      # services[id].domain_challenge
       /\ \A v \in DOMAIN outbound :
             RecoverySucceeds(v) =>
                services[outbound[v].id].domain_challenge
                   \in {NoChallenge, outbound[v].challenge}]_vars

(***************************************************************************)
(* The payment gate of the HTML flows.                                     *)
(***************************************************************************)
\* the web requests whose listing or rating was created
WebRan == {r \in ReqIds : req[r].flow = "web" /\ req[r].ran}

\* the step in which a web request presents a hash the backend does not
\* report as paid
PresentsUnpaid(r) ==
    \E op \in WebOps, h \in WebHashes, backend \in {"ok", "non200"} :
       /\ h # NoHash
       /\ h \notin settled \/ backend = "non200"
       /\ WebGate(r, op, h, backend)

\* C35: outside test mode a web submit or rate creates its listing or rating
\* only for a hash the backend reports paid and the ledger has admitted, and
\* for no hash twice; the ledger is asked only about paid hashes, so it
\* holds no unpaid one; an unpaid hash and a hash already used are answered
\* 402 and create nothing
C35_WebPaidThenAdmitted ==
    /\ [](rootKey # TestMode =>
            /\ \A r \in WebRan :
                  /\ req[r].ph \in settled
                  /\ req[r].admitted = "true"
                  /\ req[r].ph \in ledger
            /\ \A a, b \in WebRan : req[a].ph = req[b].ph => a = b
            /\ \A r \in ReqIds :
                  /\ req[r].admitted # "none" => req[r].ph \in settled
                  /\ pending[r] \subseteq settled
                  /\ req[r].admitted = "false" =>
                        /\ req[r].pc = "done" /\ req[r].status = 402
                        /\ ~req[r].ran
            /\ ledger \subseteq settled)
    /\ [][\A r \in ReqIds :
             (rootKey # TestMode /\ PresentsUnpaid(r)) =>
                /\ req'[r].pc = "done" /\ req'[r].status = 402
                /\ ~req'[r].ran
                /\ ledger' = ledger /\ pending' = pending]_vars

\* a submission was sent to pay, its hash was paid and admitted and the
\* listing created; the same hash presented again was answered 402
C35_Witness ==
    /\ rootKey # TestMode
    /\ \E a, b, c \in ReqIds :
          /\ req[a].detail = "payment_required"
          /\ req[a].op = "submit_service"
          /\ req[b].flow = "web" /\ req[b].ran
          /\ req[b].ph = req[a].chal
          /\ req[b].ph \in ledger
          /\ req[c].ph = req[b].ph
          /\ req[c].admitted = "false" /\ req[c].status = 402

\* the invoice of hash h was issued for this amount or a larger one
IssuedFor(h, amount) == \E i \in invoices : i.hash = h /\ i.amount >= amount

\* C36: outside test mode a credential or payment_hash obtained at the price
\* of a cheaper operation authorizes no more expensive one: an API operation
\* runs with a credential, and a web submit or rate takes a payment_hash to
\* the ledger, only when the invoice of the hash was issued for no less than
\* the price of the operation
C36_PaidAtThePrice ==
    [][rootKey # TestMode =>
          \A r \in ReqIds :
             /\ (req[r].pc = "idle" /\ req'[r].ran) =>
                   \A op \in ApiOps, auth \in ClientAuths :
                      ApiRequest(r, op, auth, TRUE) =>
                         IssuedFor(ValidFor(auth), ApiPrice(op))
             /\ (req[r].pc = "idle" /\ req'[r].pc = "admit") =>
                   \A op \in WebOps, h \in WebHashes :
                      WebGate(r, op, h, "ok") =>
                         IssuedFor(h, WebPrice(op))]_vars

(***************************************************************************)
(* Edits.                                                                  *)
(***************************************************************************)
\* the step in which a PATCH with this token and body changes listing id
Edits(id, tok, patch) ==
    /\ id \in Visible
    /\ resp'.status = 200
    /\ update_service(id, tok, patch)

\* the columns an edit has no field for
Fixed(row) ==
    <<row.url, row.slug, row.status, row.edit_token_hash,
      row.domain_verified, row.domain_challenge,
      row.domain_challenge_expires_at, row.avg_rating, row.rating_count>>

\* C37: a successful PATCH gives the addressed listing the name and the
\* description of its body, keeps the one the body leaves out, and changes
\* neither the url, slug, status, edit_token_hash, domain_verified and
\* challenge of the listing nor its place in the table, nor any other listing
\* or any rating
C37_EditChangesOnlyItsFields ==
    [][\A id \in SvcIds, tok \in ClientTokens, patch \in Patches :
          Edits(id, tok, patch) =>
             /\ Fixed(services'[id]) = Fixed(services[id])
             /\ services'[id].name =
                   IF patch.name = "" THEN services[id].name ELSE patch.name
             /\ services'[id].description =
                   IF patch.description = "" THEN services[id].description
                   ELSE patch.description
             /\ \A j \in SvcIds \ {id} : services'[j] = services[j]
             /\ ratings' = ratings
             /\ <<nextTok', nextChal', outbound'>>
                   = <<nextTok, nextChal, outbound>>]_vars

\* a PATCH with a description alone was answered 200: the listing has the
\* description, the name it had, its hash and its challenge; the listing that
\* shares the hash was renamed before and is as that left it
C37_Witness ==
    /\ resp = Response(200, "", NoToken)
    /\ <<"description", JStr("d")>> \in body.fields
    /\ services[1] = [ChallengedRow EXCEPT !.description = "d"]
    /\ services[2] = [SharedRow("unverified") EXCEPT !.name = "b"]

(***************************************************************************)
(* Creation beside the listings there are.                                 *)
(***************************************************************************)
\* the step in which a listing is created for url with this token presented
Creates(url, tok) ==
    /\ resp'.status = 201
    /\ create_service(url, "a", tok)

\* the listings, of any status, whose stored hash verifies the token
Opens(tok) ==
    {j \in Rows : /\ tok # NoToken
                  /\ services[j].edit_token_hash # NullHash
                  /\ verify_edit_token(tok, services[j].edit_token_hash)}

\* the row a creation has written
Created == {j \in SvcIds : services'[j] # services[j]}

\* C38: the token a creation answers with is the presented one, and then
\* that token verified for a listing of the new URL's effective domain, or
\* it verifies against the hash of no listing there was; a presented token
\* that verifies for listings of other domains only is not given to the new
\* listing; and every non-purged listing there was is as it was, so every
\* token edits the listings it edited before
C38_CreationGrantsNothing ==
    [][\A url \in Urls \cup RecoverUrls, tok \in ClientTokens \cup {NoToken} :
          Creates(url, tok) =>
             LET here == {j \in Opens(tok) :
                            /\ Lower(url.host) # ""
                            /\ EffectiveDomain(services[j]) = Lower(url.host)}
             IN  /\ IF here # {}
                    THEN resp'.token = tok
                    ELSE /\ \A j \in Rows :
                               ~verify_edit_token(resp'.token,
                                                  services[j].edit_token_hash)
                         /\ \A j \in Created :
                               ~verify_edit_token(tok,
                                                  services'[j].edit_token_hash)
                 /\ \A j \in Visible :
                       /\ services'[j] = services[j]
                       /\ \A t \in ClientTokens :
                             EditAllowed(j, t)' <=> EditAllowed(j, t)
                 /\ Cardinality(Created) = 1]_vars

\* a listing was created on api.foo.example with the token of foo.example
\* presented: it has the hash of a new token, and the two listings of
\* foo.example are as they were
C38_Witness ==
    /\ resp = Response(201, "", 2)
    /\ <<"token_reused", JBool(FALSE)>> \in body.fields
    /\ services[1] = OwnedRow
    /\ services[2] = SharedRow("unverified")
    /\ services[3].url = Url("api.foo.example", "/")
    /\ services[3].edit_token_hash = hash_token(2)
    /\ nextTok = 2


\* a create request commits
CreateCommits(c) ==
    /\ creators[c].pc = "found"
    /\ creators'[c].pc = "idle"

\* the slug the creation is due: the slugified name when no listing has it,
\* else the base with the smallest free counter
DueSlug(c) == unique_slug(creators[c].name)

\* C39: after any sequence of listing creations, interleaved ones with the
\* same name included, the listings have pairwise distinct slugs, and every
\* creation ends with a listing whose slug is the slugified name when it is
\* the first of that name and else the base followed by "-n" for the smallest
\* free positive n
C39_EveryCreationGetsItsSlug ==
    /\ [](\A i, j \in Rows : i # j => services[i].slug # services[j].slug)
    /\ [][\A c \in CreatorIds :
            CreateCommits(c) =>
               /\ resp'.status = 201
               /\ \E id \in SvcIds : /\ services'[id] # services[id]
                                     /\ services'[id].slug = DueSlug(c)]_vars

=============================================================================
